---------------------------- MODULE Spec2Model ----------------------------
(***************************************************************************)
(* A model of the data core of the cannabis analytics dashboard:           *)
(*   - the county name normalizer        (app/utils/data_utils.py)         *)
(*   - the validation engine             (app/utils/data_validation.py)    *)
(* Python values are modelled as records; strings that the code inspects   *)
(* character by character are sequences of one-character strings.          *)
(***************************************************************************)
EXTENDS Integers, Sequences, FiniteSets, TLC

VARIABLES
    mode,        \* which component this behaviour exercises
    name,        \* county: the value first handed to the normalizer
    value,       \* county: the value returned by the last call
    ops,         \* county: the calls made so far, oldest first
    df,          \* validation: the table being validated
    call,        \* validation: the call made (function and arguments)
    ret          \* validation: what the call returned

vars == <<mode, name, value, ops, df, call, ret>>

(***************************************************************************)
(* Bounds of the model.                                                    *)
(***************************************************************************)
MaxTokens == 3          \* a county input is at most this many tokens
MaxOps == 2             \* normalizer calls chained on one input
MaxRows == 3            \* rows of a table whose cells are of every kind
MaxLongRows == 7        \* rows of a table long enough to overflow the sample
MaxRowsTwo == 1         \* rows of a table with two columns
MaxRules == 2           \* rule configurations handed to validate_dataset

(***************************************************************************)
(* Python strings as sequences of characters.                              *)
(***************************************************************************)
Whitespace == {" ", "\t"}

LowerChar(c) ==
    CASE c = "C" -> "c"
      [] c = "O" -> "o"
      [] c = "U" -> "u"
      [] c = "N" -> "n"
      [] c = "T" -> "t"
      [] c = "Y" -> "y"
      [] c = "L" -> "l"
      [] c = "A" -> "a"
      [] OTHER -> c

\* str.lower()
Lower(s) == [i \in 1..Len(s) |-> LowerChar(s[i])]

\* str.endswith(suffix)
EndsWith(s, suffix) ==
    /\ Len(s) >= Len(suffix)
    /\ SubSeq(s, Len(s) - Len(suffix) + 1, Len(s)) = suffix

\* s[:-n] for n > 0
DropLast(s, n) == SubSeq(s, 1, Len(s) - n)

\* str.strip(): drop the leading and the trailing whitespace
Strip(s) ==
    LET keep == {i \in 1..Len(s) : s[i] \notin Whitespace}
    IN  IF keep = {} THEN <<>>
        ELSE LET lo == CHOOSE i \in keep : \A j \in keep : i <= j
                 hi == CHOOSE i \in keep : \A j \in keep : i >= j
             IN  SubSeq(s, lo, hi)

CountySuffixLower == <<" ", "c", "o", "u", "n", "t", "y">>
CountySuffix == <<" ", "C", "o", "u", "n", "t", "y">>

\* the decimal digits of a natural number
RECURSIVE Digits(_)
Digits(n) ==
    LET d == <<"0", "1", "2", "3", "4", "5", "6", "7", "8", "9">>[(n % 10) + 1]
    IN  IF n < 10 THEN <<d>> ELSE Digits(n \div 10) \o <<d>>

(***************************************************************************)
(* Python values handed to the normalizer: None, pd.NA, float('nan'),      *)
(* a str, an int or a bool.  s is the text of a str, v the number of an    *)
(* int (0/1 for a bool).                                                   *)
(***************************************************************************)
PyNone == [t |-> "None", s |-> <<>>, v |-> 0]
PyNA == [t |-> "NA", s |-> <<>>, v |-> 0]
PyNaN == [t |-> "nan", s |-> <<>>, v |-> 0]
PyStr(s) == [t |-> "str", s |-> s, v |-> 0]
PyInt(n) == [t |-> "int", s |-> <<>>, v |-> n]
PyBool(b) == [t |-> "bool", s |-> <<>>, v |-> IF b THEN 1 ELSE 0]

\* pd.isna(x) for a scalar
IsNA(x) == x.t \in {"None", "NA", "nan"}

\* Python truthiness: bool(x)
Truthy(x) ==
    CASE x.t = "str" -> Len(x.s) > 0
      [] x.t \in {"int", "bool"} -> x.v # 0
      [] x.t = "None" -> FALSE
      [] OTHER -> TRUE

\* str(x)
Str(x) ==
    CASE x.t = "str" -> x.s
      [] x.t = "int" -> IF x.v < 0 THEN <<"-">> \o Digits(-x.v) ELSE Digits(x.v)
      [] x.t = "bool" -> IF x.v = 1 THEN <<"T", "r", "u", "e">>
                         ELSE <<"F", "a", "l", "s", "e">>
      [] x.t = "None" -> <<"N", "o", "n", "e">>
      [] OTHER -> <<"n", "a", "n">>

\* a slip: one character too many is cut off with the suffix
normalize_county_name_cut8(x) ==
    IF IsNA(x) THEN PyNone
    ELSE IF ~Truthy(x) THEN PyNone
    ELSE LET normalized == Strip(Str(x))
         IN  IF normalized = <<>> THEN PyNone
             ELSE IF EndsWith(Lower(normalized), CountySuffixLower)
                  THEN PyStr(Strip(DropLast(normalized, 8)))
                  ELSE PyStr(normalized)

\* a slip: what is left after cutting the suffix is not stripped again
normalize_county_name_nostrip(x) ==
    IF IsNA(x) THEN PyNone
    ELSE IF ~Truthy(x) THEN PyNone
    ELSE LET normalized == Strip(Str(x))
         IN  IF normalized = <<>> THEN PyNone
             ELSE IF EndsWith(Lower(normalized), CountySuffixLower)
                  THEN PyStr(DropLast(normalized, 7))
                  ELSE PyStr(normalized)

\* a slip: the test for an empty string after stripping is left out
normalize_county_name_noempty(x) ==
    IF IsNA(x) THEN PyNone
    ELSE IF ~Truthy(x) THEN PyNone
    ELSE LET normalized == Strip(Str(x))
         IN  IF EndsWith(Lower(normalized), CountySuffixLower)
             THEN PyStr(Strip(DropLast(normalized, 7)))
             ELSE PyStr(normalized)

\* data_utils.normalize_county_name
normalize_county_name(x) ==
    IF IsNA(x) THEN PyNone
    ELSE IF ~Truthy(x) THEN PyNone
    ELSE LET normalized == Strip(Str(x))
         IN  IF normalized = <<>> THEN PyNone
             ELSE IF EndsWith(Lower(normalized), CountySuffixLower)
                  THEN PyStr(Strip(DropLast(normalized, 7)))
                  ELSE PyStr(normalized)

\* a slip: the suffix is appended without looking for one already there
add_county_suffix_always(x) ==
    IF IsNA(x) THEN PyNone
    ELSE IF ~Truthy(x) THEN PyNone
    ELSE LET formatted == Strip(Str(x))
         IN  IF formatted = <<>> THEN PyNone
             ELSE PyStr(formatted \o CountySuffix)

\* data_utils.add_county_suffix
add_county_suffix(x) ==
    IF IsNA(x) THEN PyNone
    ELSE IF ~Truthy(x) THEN PyNone
    ELSE LET formatted == Strip(Str(x))
         IN  IF formatted = <<>> THEN PyNone
             ELSE IF ~EndsWith(Lower(formatted), CountySuffixLower)
                  THEN PyStr(formatted \o CountySuffix)
                  ELSE PyStr(formatted)

(***************************************************************************)
(* The county inputs: concatenations of a few tokens, so that suffixes in  *)
(* any case, repeated suffixes, padding and near misses all occur.         *)
(***************************************************************************)
Tokens ==
    { <<" ">>, <<"\t">>, <<"L">>, <<"a">>, <<"y">>,
      <<" ", "C", "o", "u", "n", "t", "y">>,
      <<" ", "c", "o", "u", "n", "t", "y">>,
      <<" ", "C", "O", "U", "N", "T", "Y">>,
      <<" ", "C", "o", "u", "n", "t">>,
      <<"C", "o", "u", "n", "t", "y">> }

RECURSIVE Concat(_)
Concat(ts) == IF ts = <<>> THEN <<>> ELSE Head(ts) \o Concat(Tail(ts))

TokenLists == UNION {[1..n -> Tokens] : n \in 0..MaxTokens}

CountyStrings == {Concat(ts) : ts \in TokenLists}

CountyInputs ==
    {PyStr(s) : s \in CountyStrings}
    \cup {PyNone, PyNA, PyNaN}
    \cup {PyInt(n) : n \in {0, 7, 123, -5}}
    \cup {PyBool(b) : b \in BOOLEAN}

(***************************************************************************)
(* The county normalizer as a state machine: an input is drawn, and the    *)
(* two functions are applied to it, each call taking the previous result.  *)
(***************************************************************************)
NoTable == [rows |-> 0, cols |-> <<>>]
NoCall == [fn |-> "none"]
NoReturn == [kind |-> "none"]

InitCounty ==
    /\ mode = "county"
    /\ name \in CountyInputs
    /\ value = name
    /\ ops = <<>>
    /\ df = NoTable
    /\ call = NoCall
    /\ ret = NoReturn

Normalize ==
    /\ mode = "county"
    /\ Len(ops) < MaxOps
    /\ value' = normalize_county_name(value)
    /\ ops' = Append(ops, "normalize")
    /\ UNCHANGED <<mode, name, df, call, ret>>

Suffix ==
    /\ mode = "county"
    /\ Len(ops) < MaxOps
    /\ value' = add_county_suffix(value)
    /\ ops' = Append(ops, "suffix")
    /\ UNCHANGED <<mode, name, df, call, ret>>

NextCounty == Normalize \/ Suffix

SpecCounty == InitCounty /\ [][NextCounty]_vars

(***************************************************************************)
(* Claims about the county normalizer (checked under SpecCounty).          *)
(***************************************************************************)
IsCountyString(x) == x.t = "str" /\ Strip(x.s) # <<>>

HasSuffix(s) == EndsWith(Lower(s), CountySuffixLower)

\* what precedes the suffix of a stripped, suffixed string
BeforeSuffix(x) == DropLast(Strip(x.s), 7)

\* C1: for every non-empty, non-whitespace county string s,
\* normalize_county_name(add_county_suffix(s)) = normalize_county_name(s).
C1_NormalizeAfterSuffix ==
    (mode = "county" /\ IsCountyString(name) /\ ops = <<"suffix", "normalize">>)
        => value = normalize_county_name(name)

C1_Witness ==
    /\ ops = <<"suffix", "normalize">>
    /\ name = PyStr(<<"\t", "L", " ", "C", "O", "U", "N", "T", "Y">>)
    /\ value = PyStr(<<"L">>)

\* two strings that are equal except for the letter case of their last 7
\* characters (the " County" suffix)
SameUpToSuffixCase(a, b) ==
    /\ a.t = "str" /\ b.t = "str"
    /\ Len(a.s) = Len(b.s)
    /\ Len(a.s) >= 7
    /\ DropLast(a.s, 7) = DropLast(b.s, 7)
    /\ Lower(a.s) = Lower(b.s)

\* C2 as stated: for every non-empty, non-whitespace county string s,
\* add_county_suffix(normalize_county_name(s)) equals add_county_suffix(s) up
\* to the letter case of the suffix.
C2_Original ==
    (mode = "county" /\ IsCountyString(name) /\ ops = <<"normalize", "suffix">>)
        => SameUpToSuffixCase(value, add_county_suffix(name))

\* the part of s before its suffix, if s has one, ends neither in whitespace
\* nor in a further suffix
PlainBeforeSuffix(x) ==
    HasSuffix(Strip(x.s)) =>
        /\ BeforeSuffix(x) = Strip(BeforeSuffix(x))
        /\ ~HasSuffix(BeforeSuffix(x))

\* C2 (amended): add_county_suffix(normalize_county_name(s)) equals
\* add_county_suffix(s) up to the letter case of the suffix, for every
\* non-empty county string s in which the text before an existing suffix ends
\* neither in whitespace nor in another " County" suffix.
C2_SuffixAfterNormalize ==
    (/\ mode = "county"
     /\ IsCountyString(name)
     /\ PlainBeforeSuffix(name)
     /\ ops = <<"normalize", "suffix">>)
        => SameUpToSuffixCase(value, add_county_suffix(name))

C2_Witness ==
    /\ ops = <<"normalize", "suffix">>
    /\ name = PyStr(<<"L", "a", " ", "c", "o", "u", "n", "t", "y">>)
    /\ value = PyStr(<<"L", "a", " ", "C", "o", "u", "n", "t", "y">>)

\* C3 as stated: both functions are idempotent on every county string.
C3_Original ==
    (mode = "county" /\ name.t = "str") =>
        /\ ops = <<"normalize", "normalize">> => value = normalize_county_name(name)
        /\ ops = <<"suffix", "suffix">> => value = add_county_suffix(name)

\* s carries at most one " County" suffix
AtMostOneSuffix(x) ==
    HasSuffix(Strip(x.s)) => ~HasSuffix(Strip(BeforeSuffix(x)))

\* C3 (amended): add_county_suffix is idempotent on every county string, and
\* normalize_county_name is idempotent on every county string that carries at
\* most one " County" suffix.
C3_Idempotent ==
    (mode = "county" /\ name.t = "str") =>
        /\ (ops = <<"normalize", "normalize">> /\ AtMostOneSuffix(name))
               => value = normalize_county_name(name)
        /\ ops = <<"suffix", "suffix">> => value = add_county_suffix(name)

C3_Witness ==
    /\ ops = <<"normalize", "normalize">>
    /\ name = PyStr(<<"L", "\t", " ", "C", "o", "u", "n", "t", "y">>)
    /\ value = PyStr(<<"L">>)

\* None, NA, NaN, the empty string and whitespace-only strings
IsBlankInput(x) == IsNA(x) \/ (x.t = "str" /\ Strip(x.s) = <<>>)

\* C4: both functions return None for None, NA/NaN, the empty string and any
\* whitespace-only string, and neither ever returns an empty string.
C4_BlankGivesNone ==
    (mode = "county" /\ Len(ops) >= 1) =>
        /\ (Len(ops) = 1 /\ IsBlankInput(name)) => value = PyNone
        /\ value # PyStr(<<>>)

C4_Witness ==
    /\ ops = <<"normalize">>
    /\ name = PyStr(<<" ", "\t", " ">>)
    /\ value = PyNone

(***************************************************************************)
(* Tables.  A table has a row count and named columns, each a sequence of  *)
(* cells.  A cell is a number, a string that parses as a number, a string  *)
(* that does not, or a missing value (None/NaN).                           *)
(***************************************************************************)
Num(n) == [k |-> "num", v |-> n]
NumText(n) == [k |-> "numtext", v |-> n]
Text == [k |-> "text", v |-> 0]
Missing == [k |-> "missing", v |-> 0]

\* an optional number: Python's None or a number
None == [some |-> FALSE, v |-> 0]
Some(n) == [some |-> TRUE, v |-> n]

Table(n, columns) == [rows |-> n, cols |-> columns]

\* column in df.columns
HasColumn(table, column) == column \in DOMAIN table.cols

\* a raised exception, as the outcome of a call
Raised(exc) == [kind |-> "raised", exc |-> exc]

\* a slip: errors='coerce' is left out, and pandas' default is to raise
to_numeric_strict(cells, errors) ==
    IF \E i \in 1..Len(cells) : cells[i].k = "text"
    THEN Raised("ValueError")
    ELSE [kind |-> "series",
          values |-> [i \in 1..Len(cells) |->
                         IF cells[i].k \in {"num", "numtext"}
                         THEN Some(cells[i].v) ELSE None]]

\* pd.to_numeric(series, errors=...): with errors='coerce' a value that is no
\* number becomes NaN; with errors='raise' text that does not parse raises
to_numeric(cells, errors) ==
    IF errors = "raise" /\ \E i \in 1..Len(cells) : cells[i].k = "text"
    THEN Raised("ValueError")
    ELSE [kind |-> "series",
          values |-> [i \in 1..Len(cells) |->
                         IF cells[i].k \in {"num", "numtext"}
                         THEN Some(cells[i].v) ELSE None]]

\* series < bound, series <= bound, series > bound: a comparison with NaN is False
Lt(x, bound) == x.some /\ x.v < bound
Le(x, bound) == x.some /\ x.v <= bound
Gt(x, bound) == x.some /\ x.v > bound

\* df[mask][column]: the cells of the rows the mask selects, in row order
RECURSIVE Masked(_, _)
Masked(cells, mask) ==
    IF cells = <<>> THEN <<>>
    ELSE (IF Head(mask) THEN <<Head(cells)>> ELSE <<>>)
             \o Masked(Tail(cells), Tail(mask))

SampleSize == 5

\* series.head(5).tolist()
HeadSample(cells) ==
    SubSeq(cells, 1, IF Len(cells) < SampleSize THEN Len(cells) ELSE SampleSize)

\* mask.sum()
RECURSIVE MaskSum(_)
MaskSum(mask) ==
    IF mask = <<>> THEN 0
    ELSE (IF Head(mask) THEN 1 ELSE 0) + MaskSum(Tail(mask))

(***************************************************************************)
(* ValidationResult and its messages.  A message is kept as its template   *)
(* (kind) and the values formatted into it.                                *)
(***************************************************************************)
Message(kind, subject, count, text, lo, hi) ==
    [kind |-> kind, subject |-> subject, count |-> count,
     text |-> text, lo |-> lo, hi |-> hi]

\* ValidationResult.__init__
ValidationResult(is_valid, column, message, invalid_count, invalid_values) ==
    [kind |-> "result", is_valid |-> is_valid, column |-> column,
     message |-> message, invalid_count |-> invalid_count,
     invalid_values |-> invalid_values]

\* f"Column '{display_name}' not found in dataset"
NotFound(column, display_name) ==
    ValidationResult(FALSE, column,
                     Message("not found", display_name, 0, "", None, None),
                     0, <<>>)

\* column_display_name or column
DisplayName(column_display_name, column) ==
    IF column_display_name = "" THEN column ELSE column_display_name

(***************************************************************************)
(* The validation rules.                                                   *)
(***************************************************************************)
\* a slip: zero is rejected whether or not it is allowed
validate_positive_numeric_strict(table, column, allow_zero, column_display_name) ==
    LET display_name == DisplayName(column_display_name, column)
    IN  IF ~HasColumn(table, column) THEN NotFound(column, display_name)
        ELSE
        LET cells == table.cols[column]
            numeric_values == to_numeric(cells, "coerce")
        IN  IF numeric_values.kind = "raised" THEN numeric_values
            ELSE
            LET invalid_mask ==
                    [i \in 1..Len(cells) |->
                        IF allow_zero THEN Le(numeric_values.values[i], 0)
                        ELSE Le(numeric_values.values[i], 0)]
                threshold_text ==
                    IF allow_zero THEN "non-negative (>= 0)" ELSE "positive (> 0)"
                invalid_count == MaskSum(invalid_mask)
            IN  IF invalid_count > 0
                THEN ValidationResult(FALSE, column,
                         Message("values are not", display_name, invalid_count,
                                 threshold_text, None, None),
                         invalid_count, HeadSample(Masked(cells, invalid_mask)))
                ELSE ValidationResult(TRUE, column,
                         Message("all values are", display_name, 0,
                                 threshold_text, None, None),
                         0, <<>>)

\* data_validation.validate_positive_numeric
validate_positive_numeric(table, column, allow_zero, column_display_name) ==
    LET display_name == DisplayName(column_display_name, column)
    IN  IF ~HasColumn(table, column) THEN NotFound(column, display_name)
        ELSE
        LET cells == table.cols[column]
            numeric_values == to_numeric(cells, "coerce")
        IN  IF numeric_values.kind = "raised" THEN numeric_values
            ELSE
            LET invalid_mask ==
                    [i \in 1..Len(cells) |->
                        IF allow_zero THEN Lt(numeric_values.values[i], 0)
                        ELSE Le(numeric_values.values[i], 0)]
                threshold_text ==
                    IF allow_zero THEN "non-negative (>= 0)" ELSE "positive (> 0)"
                invalid_count == MaskSum(invalid_mask)
            IN  IF invalid_count > 0
                THEN ValidationResult(FALSE, column,
                         Message("values are not", display_name, invalid_count,
                                 threshold_text, None, None),
                         invalid_count, HeadSample(Masked(cells, invalid_mask)))
                ELSE ValidationResult(TRUE, column,
                         Message("all values are", display_name, 0,
                                 threshold_text, None, None),
                         0, <<>>)

\* a slip: the column is read without testing that the table has it
validate_range_unchecked(table, column, min_value, max_value, column_display_name) ==
    LET display_name == DisplayName(column_display_name, column)
    IN  IF ~HasColumn(table, column) THEN Raised("KeyError")
        ELSE
        LET cells == table.cols[column]
            numeric_values == to_numeric(cells, "coerce")
        IN  IF numeric_values.kind = "raised" THEN numeric_values
            ELSE
            LET invalid_mask ==
                    [i \in 1..Len(cells) |->
                        \/ min_value.some /\ Lt(numeric_values.values[i], min_value.v)
                        \/ max_value.some /\ Gt(numeric_values.values[i], max_value.v)]
                invalid_count == MaskSum(invalid_mask)
            IN  IF invalid_count > 0
                THEN ValidationResult(FALSE, column,
                         Message("outside range", display_name, invalid_count,
                                 "", min_value, max_value),
                         invalid_count, HeadSample(Masked(cells, invalid_mask)))
                ELSE ValidationResult(TRUE, column,
                         Message("within range", display_name, 0,
                                 "", min_value, max_value),
                         0, <<>>)

\* a slip: 'if min_value:' in place of 'if min_value is not None:'
validate_range_truthy(table, column, min_value, max_value, column_display_name) ==
    LET display_name == DisplayName(column_display_name, column)
    IN  IF ~HasColumn(table, column) THEN NotFound(column, display_name)
        ELSE
        LET cells == table.cols[column]
            numeric_values == to_numeric(cells, "coerce")
        IN  IF numeric_values.kind = "raised" THEN numeric_values
            ELSE
            LET invalid_mask ==
                    [i \in 1..Len(cells) |->
                        \/ (min_value.some /\ min_value.v # 0) /\ Lt(numeric_values.values[i], min_value.v)
                        \/ max_value.some /\ Gt(numeric_values.values[i], max_value.v)]
                invalid_count == MaskSum(invalid_mask)
            IN  IF invalid_count > 0
                THEN ValidationResult(FALSE, column,
                         Message("outside range", display_name, invalid_count,
                                 "", min_value, max_value),
                         invalid_count, HeadSample(Masked(cells, invalid_mask)))
                ELSE ValidationResult(TRUE, column,
                         Message("within range", display_name, 0,
                                 "", min_value, max_value),
                         0, <<>>)

\* data_validation.validate_range
validate_range(table, column, min_value, max_value, column_display_name) ==
    LET display_name == DisplayName(column_display_name, column)
    IN  IF ~HasColumn(table, column) THEN NotFound(column, display_name)
        ELSE
        LET cells == table.cols[column]
            numeric_values == to_numeric(cells, "coerce")
        IN  IF numeric_values.kind = "raised" THEN numeric_values
            ELSE
            LET invalid_mask ==
                    [i \in 1..Len(cells) |->
                        \/ min_value.some /\ Lt(numeric_values.values[i], min_value.v)
                        \/ max_value.some /\ Gt(numeric_values.values[i], max_value.v)]
                invalid_count == MaskSum(invalid_mask)
            IN  IF invalid_count > 0
                THEN ValidationResult(FALSE, column,
                         Message("outside range", display_name, invalid_count,
                                 "", min_value, max_value),
                         invalid_count, HeadSample(Masked(cells, invalid_mask)))
                ELSE ValidationResult(TRUE, column,
                         Message("within range", display_name, 0,
                                 "", min_value, max_value),
                         0, <<>>)

DefaultMinYear == 2000
PresetMinYear == 2015
PercentageMax == 100

\* data_validation.validate_year_column; now is datetime.datetime.now().year
validate_year_column(table, column, min_year, max_year, now) ==
    validate_range(table, column, Some(min_year),
                   IF max_year.some THEN max_year ELSE Some(now + 1), "Year")

\* data_validation.validate_sentiment_score
validate_sentiment_score(table, column, min_score, max_score) ==
    validate_range(table, column, Some(min_score), Some(max_score),
                   "Sentiment Score")

\* data_validation.validate_percentage
validate_percentage(table, column, column_display_name) ==
    validate_range(table, column, Some(0), Some(PercentageMax),
                   IF column_display_name = "" THEN column \o " (percentage)"
                   ELSE column_display_name)

(***************************************************************************)
(* Batch validation.  A rule configuration is a Python dict: a function    *)
(* from the keys it has to their values.                                   *)
(***************************************************************************)
\* dict.get(key, default)
Get(dict, key, default) == IF key \in DOMAIN dict THEN dict[key] ELSE default

\* one turn of the loop of validate_dataset: the result for one configuration.
\* A missing 'column' (get gives None) and an empty one are both falsy.
run_validation(table, validation_config, now) ==
    LET validation_type == Get(validation_config, "type", "None")
        column == Get(validation_config, "column", "")
    IN  IF column = ""
        THEN ValidationResult(FALSE, "unknown",
                 Message("missing column parameter", "", 0, "", None, None),
                 0, <<>>)
        ELSE CASE validation_type = "positive" ->
                    validate_positive_numeric(table, column,
                        Get(validation_config, "allow_zero", TRUE),
                        Get(validation_config, "display_name", ""))
               [] validation_type = "range" ->
                    validate_range(table, column,
                        Get(validation_config, "min_value", None),
                        Get(validation_config, "max_value", None),
                        Get(validation_config, "display_name", ""))
               [] validation_type = "year" ->
                    validate_year_column(table, column,
                        Get(validation_config, "min_year", DefaultMinYear),
                        Get(validation_config, "max_year", None), now)
               [] validation_type = "sentiment" ->
                    validate_sentiment_score(table, column,
                        Get(validation_config, "min_score", -1),
                        Get(validation_config, "max_score", 1))
               [] validation_type = "percentage" ->
                    validate_percentage(table, column,
                        Get(validation_config, "display_name", ""))
               [] OTHER ->
                    ValidationResult(FALSE, column,
                        Message("unknown validation type", validation_type, 0,
                                "", None, None),
                        0, <<>>)

\* a slip: 'all_valid = result.is_valid' in every turn of the loop
RECURSIVE validate_loop_overwrite(_, _, _, _, _)
validate_loop_overwrite(table, validations, results, all_valid, now) ==
    IF validations = <<>>
    THEN [kind |-> "dataset", all_valid |-> all_valid, results |-> results]
    ELSE LET result == run_validation(table, Head(validations), now)
         IN  IF result.kind = "raised" THEN result
             ELSE validate_loop_overwrite(table, Tail(validations),
                     Append(results, result),
                     result.is_valid, now)

\* a slip: a configuration without a column is passed over without a result
RECURSIVE validate_loop_skip(_, _, _, _, _)
validate_loop_skip(table, validations, results, all_valid, now) ==
    IF validations = <<>>
    THEN [kind |-> "dataset", all_valid |-> all_valid, results |-> results]
    ELSE LET result == run_validation(table, Head(validations), now)
         IN  IF result.kind = "raised" THEN result
             ELSE validate_loop_skip(table, Tail(validations),
                     IF result.column = "unknown" THEN results ELSE Append(results, result),
                     all_valid /\ result.is_valid, now)

\* the loop of data_validation.validate_dataset over the remaining configurations
RECURSIVE validate_loop(_, _, _, _, _)
validate_loop(table, validations, results, all_valid, now) ==
    IF validations = <<>>
    THEN [kind |-> "dataset", all_valid |-> all_valid, results |-> results]
    ELSE LET result == run_validation(table, Head(validations), now)
         IN  IF result.kind = "raised" THEN result
             ELSE validate_loop(table, Tail(validations),
                     Append(results, result),
                     all_valid /\ result.is_valid, now)

\* data_validation.validate_dataset
validate_dataset(table, dataset_name, validations, now) ==
    validate_loop(table, validations, <<>>, TRUE, now)

(***************************************************************************)
(* The tables and the arguments the validation engine is exercised on.     *)
(***************************************************************************)
Seqs(S, lo, hi) == UNION {[1..n -> S] : n \in lo..hi}

\* below the range, on its lower and upper end, above it, text that parses,
\* text that does not, and a missing value
ValueCells == {Num(-1), Num(0), Num(1), Num(3), NumText(-1), Text, Missing}
LongCells == {Num(-1), Num(1), Num(3)}
TwoCells == {Num(-1), Num(1)}
YearCells == {Num(2014), Num(2027)}
NowYears == {2025, 2026}

TablesValue ==
    {Table(Len(s), [value |-> s]) : s \in Seqs(ValueCells, 0, MaxRows)}

TablesLong ==
    {Table(MaxLongRows, [value |-> s]) : s \in [1..MaxLongRows -> LongCells]}

TablesTwo ==
    UNION {{Table(n, [value |-> s, Year |-> y]) :
                s \in [1..n -> TwoCells], y \in [1..n -> YearCells]} :
           n \in 0..MaxRowsTwo}

\* the columns of the tests: test_with_zero_not_allowed, test_with_negative_values
TablesTests ==
    {Table(4, [value |-> <<Num(0), Num(1), Num(2), Num(3)>>]),
     Table(5, [value |-> <<Num(-1), Num(0), Num(1), Num(2), Num(-3)>>])}

Tables == TablesValue \cup TablesLong \cup TablesTwo \cup TablesTests

\* a column argument: a column of the table, or one it does not have
ColumnArgs(table) == DOMAIN table.cols \cup {"nonexistent"}

RuleTypes == {"positive", "range", "year", "sentiment", "percentage"}

RuleConfigs ==
    {[type |-> ty, column |-> "nonexistent"] : ty \in RuleTypes}
    \cup {[type |-> "positive", column |-> "value", allow_zero |-> FALSE],
          [type |-> "positive", column |-> "value", display_name |-> "Population"],
          [type |-> "range", column |-> "value",
           min_value |-> Some(0), max_value |-> Some(1)],
          [type |-> "year", column |-> "Year", min_year |-> PresetMinYear],
          [type |-> "sentiment", column |-> "value"],
          [type |-> "percentage", column |-> "value"],
          [type |-> "unknown_type", column |-> "value"],
          [type |-> "positive"],
          [type |-> "range", column |-> "", min_value |-> Some(0)]}

ValidationLists == Seqs(RuleConfigs, 0, MaxRules)

(***************************************************************************)
(* The validation engine as a state machine: a table is drawn, and one of  *)
(* the public functions is called on it.                                   *)
(***************************************************************************)
InitValidation ==
    /\ mode = "validation"
    /\ df \in Tables
    /\ call = NoCall
    /\ ret = NoReturn
    /\ name = PyNone
    /\ value = PyNone
    /\ ops = <<>>

ValidatePositiveNumeric ==
    /\ mode = "validation" /\ call = NoCall
    /\ \E column \in ColumnArgs(df), allow_zero \in BOOLEAN,
          display \in {"", "Population"} :
        /\ call' = [fn |-> "validate_positive_numeric", column |-> column,
                    allow_zero |-> allow_zero, display_name |-> display]
        /\ ret' = validate_positive_numeric(df, column, allow_zero, display)
    /\ UNCHANGED <<mode, name, value, ops, df>>

ValidateRange ==
    /\ mode = "validation" /\ call = NoCall
    /\ \E column \in ColumnArgs(df), min_value \in {None, Some(0)},
          max_value \in {None, Some(1)} :
        /\ call' = [fn |-> "validate_range", column |-> column,
                    min_value |-> min_value, max_value |-> max_value]
        /\ ret' = validate_range(df, column, min_value, max_value, "")
    /\ UNCHANGED <<mode, name, value, ops, df>>

ValidateYearColumn ==
    /\ mode = "validation" /\ call = NoCall
    /\ \E column \in ColumnArgs(df), min_year \in {DefaultMinYear, PresetMinYear},
          max_year \in {None, Some(2020)}, now \in NowYears :
        /\ call' = [fn |-> "validate_year_column", column |-> column,
                    min_year |-> min_year, max_year |-> max_year, now |-> now]
        /\ ret' = validate_year_column(df, column, min_year, max_year, now)
    /\ UNCHANGED <<mode, name, value, ops, df>>

ValidateSentimentScore ==
    /\ mode = "validation" /\ call = NoCall
    /\ \E column \in ColumnArgs(df) :
        /\ call' = [fn |-> "validate_sentiment_score", column |-> column,
                    min_score |-> -1, max_score |-> 1]
        /\ ret' = validate_sentiment_score(df, column, -1, 1)
    /\ UNCHANGED <<mode, name, value, ops, df>>

ValidatePercentage ==
    /\ mode = "validation" /\ call = NoCall
    /\ \E column \in ColumnArgs(df), display \in {"", "Share"} :
        /\ call' = [fn |-> "validate_percentage", column |-> column,
                    display_name |-> display]
        /\ ret' = validate_percentage(df, column, display)
    /\ UNCHANGED <<mode, name, value, ops, df>>

ValidateDataset ==
    /\ mode = "validation" /\ call = NoCall
    /\ "Year" \in DOMAIN df.cols
    /\ \E validations \in ValidationLists, now \in NowYears :
        /\ call' = [fn |-> "validate_dataset", validations |-> validations,
                    now |-> now]
        /\ ret' = validate_dataset(df, "TestData", validations, now)
    /\ UNCHANGED <<mode, name, value, ops, df>>

NextValidation ==
    \/ ValidatePositiveNumeric
    \/ ValidateRange
    \/ ValidateYearColumn
    \/ ValidateSentimentScore
    \/ ValidatePercentage
    \/ ValidateDataset

SpecValidation == InitValidation /\ [][NextValidation]_vars

(***************************************************************************)
(* The filters.  A DataFrame variable refers to an object: the caller's    *)
(* table ("input") or one made during the call ("new").  Assigning a       *)
(* column writes into the object referred to, so a write through a         *)
(* reference to the caller's table changes the caller's table.             *)
(***************************************************************************)
Frame(obj, data) == [obj |-> obj, data |-> data]

\* a slip: the function works on the caller's table itself
DataFrameCopy_alias(frame) == frame

\* df.copy(): a new object with the same rows and columns
DataFrameCopy(frame) == Frame("new", frame.data)

\* df[mask]: a new object holding the rows the mask selects
SelectRows(frame, mask) ==
    Frame("new",
          Table(MaskSum(mask),
                [c \in DOMAIN frame.data.cols |->
                    Masked(frame.data.cols[c], mask)]))

\* df[column] = cells: written into the object itself
SetColumn(frame, column, cells) ==
    Frame(frame.obj,
          Table(frame.data.rows,
                [c \in DOMAIN frame.data.cols \cup {column} |->
                    IF c = column THEN cells ELSE frame.data.cols[c]]))

\* df.drop(columns=[column]): a new object without the column
DropColumn(frame, column) ==
    Frame("new",
          Table(frame.data.rows,
                [c \in DOMAIN frame.data.cols \ {column} |->
                    frame.data.cols[c]]))

\* What a call leaves behind: the caller's table as it is after the call,
\* and the table returned.
Outcome(input, result) == [kind |-> "frame", input |-> input, result |-> result]

\* the caller's table after `frame` has been written to as `written`
InputAfter(table, frame, written) ==
    IF frame.obj = "input" THEN written.data ELSE table

AllCounties == PyStr(<<"A", "l", "l", " ", "C", "o", "u", "n", "t", "i", "e", "s">>)
HelperColumn == "_normalized_county"

\* key in filters and filters[key], for a tuple or a list
HasValue(filters, key) == key \in DOMAIN filters /\ filters[key] # <<>>

\* set(list)
SetOf(list) == {list[i] : i \in 1..Len(list)}

\* value in list
InList(x, list) == \E i \in 1..Len(list) : list[i] = x

\* (df["Year"] >= start_year) & (df["Year"] <= end_year); NaN compares False
YearMask(cells, years) ==
    [i \in 1..Len(cells) |->
        /\ cells[i].k = "num"
        /\ cells[i].v >= years[1]
        /\ cells[i].v <= years[2]]

\* a slip: the upper end of the range is left out
year_filter_exclusive(frame, filters) ==
    IF HasValue(filters, "years") /\ HasColumn(frame.data, "Year")
    THEN SelectRows(frame,
             [i \in 1..frame.data.rows |->
                 YearMask(frame.data.cols["Year"], filters["years"])[i]
                 /\ frame.data.cols["Year"][i].v < filters["years"][2]])
    ELSE frame

\* the year range filter of the three functions
year_filter(frame, filters) ==
    IF HasValue(filters, "years") /\ HasColumn(frame.data, "Year")
    THEN SelectRows(frame, YearMask(frame.data.cols["Year"], filters["years"]))
    ELSE frame

\* a slip: only the first of the wanted types is looked for
license_filter_first(frame, filters) ==
    IF HasValue(filters, "license_types")
       /\ HasColumn(frame.data, "License Designation")
    THEN SelectRows(frame,
             [i \in 1..frame.data.rows |->
                 frame.data.cols["License Designation"][i]
                     = filters["license_types"][1]])
    ELSE frame

\* a slip: a table without the column has no row of the wanted types
license_filter_unguarded(frame, filters) ==
    IF HasValue(filters, "license_types")
    THEN SelectRows(frame,
             [i \in 1..frame.data.rows |->
                 /\ HasColumn(frame.data, "License Designation")
                 /\ InList(frame.data.cols["License Designation"][i],
                           filters["license_types"])])
    ELSE frame

\* the license type filter of apply_dispensary_filters
license_filter(frame, filters) ==
    IF HasValue(filters, "license_types")
       /\ HasColumn(frame.data, "License Designation")
    THEN SelectRows(frame,
             [i \in 1..frame.data.rows |->
                 InList(frame.data.cols["License Designation"][i],
                        filters["license_types"])])
    ELSE frame

\* a slip: the legacy key is looked at first
counties_to_filter_legacy_first(filters) ==
    IF "county" \in DOMAIN filters /\ filters["county"] # AllCounties
    THEN <<filters["county"]>>
    ELSE IF HasValue(filters, "counties")
            /\ ~InList(AllCounties, filters["counties"])
         THEN filters["counties"]
         ELSE <<>>

\* a slip: the sentinel is filtered by like a county name
counties_to_filter_nosentinel(filters) ==
    IF HasValue(filters, "counties")
    THEN filters["counties"]
    ELSE IF "county" \in DOMAIN filters
         THEN <<filters["county"]>>
         ELSE <<>>

\* counties_to_filter: the list to filter by; <<>> stands for None and for
\* an empty list alike, both are falsy where the list is used
counties_to_filter(filters) ==
    IF HasValue(filters, "counties")
    THEN IF ~InList(AllCounties, filters["counties"])
         THEN filters["counties"]
         ELSE <<>>
    ELSE IF "county" \in DOMAIN filters /\ filters["county"] # AllCounties
         THEN <<filters["county"]>>
         ELSE <<>>

\* a slip: the County column is compared as it is spelled
NormalizedCounties_raw(table) == table.cols["County"]

\* df["County"].apply(normalize_county_name)
NormalizedCounties(table) ==
    [i \in 1..table.rows |-> normalize_county_name(table.cols["County"][i])]

\* the county filter of apply_dispensary_filters and apply_sentiment_filters,
\* applied to the frame the earlier filters left; gives the caller's table
\* after the call and the table returned
county_filter(table, frame, filters) ==
    LET counties == counties_to_filter(filters)
    IN  IF counties # <<>> /\ HasColumn(frame.data, "County")
        THEN LET normalized_filter_counties ==
                     {normalize_county_name(counties[i]) : i \in 1..Len(counties)}
                 with_helper ==
                     SetColumn(frame, HelperColumn, NormalizedCounties(frame.data))
                 kept ==
                     SelectRows(with_helper,
                         [i \in 1..frame.data.rows |->
                             with_helper.data.cols[HelperColumn][i]
                                 \in normalized_filter_counties])
             IN  Outcome(InputAfter(table, frame, with_helper),
                         DropColumn(kept, HelperColumn).data)
        ELSE Outcome(table, frame.data)

apply_dispensary_filters(dispensaries, filters) ==
    LET filtered_df == DataFrameCopy(Frame("input", dispensaries))
    IN  county_filter(dispensaries,
                      license_filter(year_filter(filtered_df, filters), filters),
                      filters)

apply_sentiment_filters(tweet_sentiment, filters) ==
    LET filtered_df == DataFrameCopy(Frame("input", tweet_sentiment))
    IN  county_filter(tweet_sentiment, year_filter(filtered_df, filters), filters)

apply_density_filters(density, filters) ==
    LET filtered_df == DataFrameCopy(Frame("input", density))
        by_year == year_filter(filtered_df, filters)
    IN  IF "county" \in DOMAIN filters /\ filters["county"] # AllCounties
           /\ HasColumn(by_year.data, "County")
        THEN LET filter_county == normalize_county_name(filters["county"])
                 with_helper ==
                     SetColumn(by_year, HelperColumn,
                               NormalizedCounties(by_year.data))
                 kept ==
                     SelectRows(with_helper,
                         [i \in 1..by_year.data.rows |->
                             /\ filter_county # PyNone
                             /\ with_helper.data.cols[HelperColumn][i]
                                    = filter_county])
             IN  Outcome(InputAfter(density, by_year, with_helper),
                         DropColumn(kept, HelperColumn).data)
        ELSE Outcome(density, by_year.data)

(***************************************************************************)
(* get_filter_summary and has_active_filters.  A part of the summary is    *)
(* kept as its template (form) and the values formatted into it.           *)
(***************************************************************************)
Part(dim, form, a, b, county, label) ==
    [dim |-> dim, form |-> form, a |-> a, b |-> b,
     county |-> county, label |-> label]

YearsPart(filters) ==
    IF HasValue(filters, "years")
    THEN LET start_year == filters["years"][1]
             end_year == filters["years"][2]
         IN  IF start_year = end_year
             THEN <<Part("years", "year {start}", start_year, end_year, PyNone, "")>>
             ELSE <<Part("years", "{start}-{end}", start_year, end_year, PyNone, "")>>
    ELSE <<>>

CountiesPart(filters) ==
    IF HasValue(filters, "counties")
    THEN IF InList(AllCounties, filters["counties"])
         THEN <<Part("counties", "all counties", 0, 0, PyNone, "")>>
         ELSE IF Len(filters["counties"]) = 1
              THEN <<Part("counties", "{county}", 0, 0,
                          normalize_county_name(filters["counties"][1]), "")>>
              ELSE <<Part("counties", "{n} counties",
                          Len(filters["counties"]), 0, PyNone, "")>>
    ELSE IF "county" \in DOMAIN filters
         THEN IF filters["county"] = AllCounties
              THEN <<Part("counties", "all counties", 0, 0, PyNone, "")>>
              ELSE <<Part("counties", "{county}", 0, 0,
                          normalize_county_name(filters["county"]), "")>>
         ELSE <<>>

AllLicenseTypes == 3

LicensePart(filters) ==
    IF HasValue(filters, "license_types")
    THEN LET types == filters["license_types"]
         IN  IF Len(types) = AllLicenseTypes
             THEN <<Part("license_types", "all license types", 0, 0, PyNone, "")>>
             ELSE IF Len(types) = 1
                  THEN <<Part("license_types", "{type}", 0, 0, PyNone, types[1])>>
                  ELSE <<Part("license_types", "{n} license types",
                              Len(types), 0, PyNone, "")>>
    ELSE <<>>

Summary(text, parts) == [kind |-> "summary", text |-> text, parts |-> parts]

\* a slip: the years are put after the counties
get_filter_summary_swapped(filters) ==
    LET parts == CountiesPart(filters) \o YearsPart(filters) \o LicensePart(filters)
    IN  IF parts = <<>> THEN Summary("No filters applied", <<>>)
        ELSE IF \E i \in 1..Len(parts) :
                    parts[i].form = "{county}" /\ parts[i].county = PyNone
             THEN Raised("TypeError")
             ELSE Summary("Showing data for ", parts)

\* ", ".join(parts) raises TypeError when a part is None
get_filter_summary(filters) ==
    LET parts == YearsPart(filters) \o CountiesPart(filters) \o LicensePart(filters)
    IN  IF parts = <<>> THEN Summary("No filters applied", <<>>)
        ELSE IF \E i \in 1..Len(parts) :
                    parts[i].form = "{county}" /\ parts[i].county = PyNone
             THEN Raised("TypeError")
             ELSE Summary("Showing data for ", parts)

DefaultStartYear == 2018
DefaultEndYear == 2024

\* a slip: a year range counts as active only when both ends deviate
has_active_filters_bothends(filters) ==
    \/ /\ HasValue(filters, "years")
       /\ filters["years"][1] # DefaultStartYear
       /\ filters["years"][2] # DefaultEndYear
    \/ IF HasValue(filters, "counties")
       THEN ~InList(AllCounties, filters["counties"])
       ELSE "county" \in DOMAIN filters /\ filters["county"] # AllCounties
    \/ /\ HasValue(filters, "license_types")
       /\ Len(filters["license_types"]) < AllLicenseTypes

has_active_filters(filters) ==
    \/ /\ HasValue(filters, "years")
       /\ \/ filters["years"][1] # DefaultStartYear
          \/ filters["years"][2] # DefaultEndYear
    \/ IF HasValue(filters, "counties")
       THEN ~InList(AllCounties, filters["counties"])
       ELSE "county" \in DOMAIN filters /\ filters["county"] # AllCounties
    \/ /\ HasValue(filters, "license_types")
       /\ Len(filters["license_types"]) < AllLicenseTypes

normalize_dataframe_counties(table, county_column) ==
    IF ~HasColumn(table, county_column) THEN Raised("ValueError")
    ELSE LET df_copy == DataFrameCopy(Frame("input", table))
             written ==
                 SetColumn(df_copy, county_column,
                     [i \in 1..table.rows |->
                         normalize_county_name(table.cols[county_column][i])])
         IN  Outcome(InputAfter(table, df_copy, written), written.data)

(***************************************************************************)
(* The filter inputs.  Tables are built from a few rows whose counties are *)
(* spelled with and without the suffix, in either case, padded, doubled    *)
(* and missing; a table may lack one of the three filtered columns.        *)
(***************************************************************************)
MaxFilterRows == 2

LA == <<"L", "A">>
SD == <<"S", "D">>
CountySuffixUpper == <<" ", "C", "O", "U", "N", "T", "Y">>

AdultUse == "Adult-Use"
Medicinal == "Medicinal"
AdultUseAndMedicinal == "Adult-Use and Medicinal"

FilterRow(county, year, license) ==
    [County |-> county, Year |-> year, License |-> license]

FilterRows ==
    { FilterRow(PyStr(LA \o CountySuffix), Num(2020), AdultUse),
      FilterRow(PyStr(LA), Num(2021), Medicinal),
      FilterRow(PyStr(<<" ">> \o LA \o CountySuffixUpper), Num(2018),
                AdultUseAndMedicinal),
      FilterRow(PyStr(SD \o CountySuffixLower \o <<" ">>), Num(2024), AdultUse),
      FilterRow(PyStr(LA \o CountySuffix \o CountySuffix), Num(2025), Medicinal),
      FilterRow(PyNaN, Missing, AdultUse) }

ColumnSets ==
    { {"County", "Year", "License Designation"},
      {"County", "Year"},
      {"County", "License Designation"},
      {"Year", "License Designation"} }

FilterTable(rows, columns) ==
    Table(Len(rows),
          [c \in columns |->
              [i \in 1..Len(rows) |->
                  CASE c = "County" -> rows[i].County
                    [] c = "Year" -> rows[i].Year
                    [] OTHER -> rows[i].License]])

FilterTables ==
    {FilterTable(rows, columns) :
        rows \in Seqs(FilterRows, 0, MaxFilterRows), columns \in ColumnSets}

\* a key of the filter dictionary: absent, or present with a value
Absent(v) == [set |-> FALSE, v |-> v]
Given(v) == [set |-> TRUE, v |-> v]

FilterDict(years, license_types, counties, county) ==
    [k \in {x \in {"years", "license_types", "counties", "county"} :
               CASE x = "years" -> years.set
                 [] x = "license_types" -> license_types.set
                 [] x = "counties" -> counties.set
                 [] OTHER -> county.set} |->
        CASE k = "years" -> years.v
          [] k = "license_types" -> license_types.v
          [] k = "counties" -> counties.v
          [] OTHER -> county.v]

YearsArgs ==
    { Absent(<<>>), Given(<<DefaultStartYear, DefaultEndYear>>),
      Given(<<2020, 2021>>) }

LicenseArgs ==
    { Absent(<<>>), Given(<<AdultUse>>),
      Given(<<AdultUse, Medicinal, AdultUseAndMedicinal>>) }

CountyValues ==
    { PyStr(LA), PyStr(LA \o CountySuffixUpper), PyStr(SD \o CountySuffix) }

CountyPair(counties, county) == [counties |-> counties, county |-> county]

CountyArgs ==
    { CountyPair(Absent(<<>>), Absent(PyNone)),
      CountyPair(Absent(<<>>), Given(AllCounties)),
      CountyPair(Absent(<<>>), Given(PyStr(LA \o CountySuffixUpper))),
      CountyPair(Given(<<AllCounties>>), Absent(PyNone)),
      CountyPair(Given(<<AllCounties, PyStr(LA)>>), Absent(PyNone)),
      CountyPair(Given(<<PyStr(LA)>>), Absent(PyNone)),
      CountyPair(Given(<<PyStr(LA \o CountySuffix), PyStr(SD)>>), Absent(PyNone)),
      CountyPair(Given(<<>>), Absent(PyNone)),
      CountyPair(Given(<<>>), Given(PyStr(SD \o CountySuffix))),
      CountyPair(Given(<<PyStr(SD)>>), Given(PyStr(LA))),
      CountyPair(Given(<<AllCounties>>), Given(PyStr(LA))) }

\* further values for the functions that look at the dictionary only
YearsArgsMore ==
    YearsArgs \cup { Given(<<>>), Given(<<2020, 2020>>), Given(<<2022, 2023>>),
                     Given(<<DefaultStartYear, 2023>>),
                     Given(<<2019, DefaultEndYear>>) }

LicenseArgsMore ==
    LicenseArgs \cup { Given(<<>>), Given(<<Medicinal, AdultUse>>),
                       Given(<<AdultUseAndMedicinal, Medicinal, AdultUse>>) }

(***************************************************************************)
(* The filters as a state machine: a table is loaded and one of the        *)
(* functions is called on it; or one of the two functions that take the    *)
(* filter dictionary alone is called.                                      *)
(***************************************************************************)
InitFilters ==
    /\ mode = "filters"
    /\ df \in FilterTables
    /\ call = NoCall
    /\ ret = NoReturn
    /\ name = PyNone
    /\ value = PyNone
    /\ ops = <<>>

InitFilterDict ==
    /\ mode = "filter dict"
    /\ df = NoTable
    /\ call = NoCall
    /\ ret = NoReturn
    /\ name = PyNone
    /\ value = PyNone
    /\ ops = <<>>

FilterCall(fn, table, filters) == [fn |-> fn, table |-> table, filters |-> filters]

ApplyDispensaryFilters ==
    /\ mode = "filters" /\ call = NoCall
    /\ \E years \in YearsArgs, license_types \in LicenseArgs, c \in CountyArgs :
        LET filters == FilterDict(years, license_types, c.counties, c.county)
            out == apply_dispensary_filters(df, filters)
        IN  /\ call' = FilterCall("apply_dispensary_filters", df, filters)
            /\ df' = out.input
            /\ ret' = out
    /\ UNCHANGED <<mode, name, value, ops>>

ApplySentimentFilters ==
    /\ mode = "filters" /\ call = NoCall
    /\ \E years \in YearsArgs, license_types \in LicenseArgs, c \in CountyArgs :
        LET filters == FilterDict(years, license_types, c.counties, c.county)
            out == apply_sentiment_filters(df, filters)
        IN  /\ call' = FilterCall("apply_sentiment_filters", df, filters)
            /\ df' = out.input
            /\ ret' = out
    /\ UNCHANGED <<mode, name, value, ops>>

ApplyDensityFilters ==
    /\ mode = "filters" /\ call = NoCall
    /\ \E years \in YearsArgs, license_types \in LicenseArgs, c \in CountyArgs :
        LET filters == FilterDict(years, license_types, c.counties, c.county)
            out == apply_density_filters(df, filters)
        IN  /\ call' = FilterCall("apply_density_filters", df, filters)
            /\ df' = out.input
            /\ ret' = out
    /\ UNCHANGED <<mode, name, value, ops>>

NormalizeDataframeCounties ==
    /\ mode = "filters" /\ call = NoCall
    /\ \E county_column \in {"County"} :
        LET out == normalize_dataframe_counties(df, county_column)
        IN  /\ call' = [fn |-> "normalize_dataframe_counties", table |-> df,
                        county_column |-> county_column]
            /\ df' = IF out.kind = "raised" THEN df ELSE out.input
            /\ ret' = out
    /\ UNCHANGED <<mode, name, value, ops>>

ValidateLoadedYears ==
    /\ mode = "filters" /\ call = NoCall
    /\ \E now \in NowYears :
        /\ call' = [fn |-> "validate_year_column", table |-> df,
                    column |-> "Year", now |-> now]
        /\ ret' = validate_year_column(df, "Year", PresetMinYear, None, now)
    /\ UNCHANGED <<mode, name, value, ops, df>>

GetFilterSummary ==
    /\ mode = "filter dict" /\ call = NoCall
    /\ \E years \in YearsArgsMore, license_types \in LicenseArgsMore,
          c \in CountyArgs :
        LET filters == FilterDict(years, license_types, c.counties, c.county)
        IN  /\ call' = FilterCall("get_filter_summary", NoTable, filters)
            /\ ret' = get_filter_summary(filters)
    /\ UNCHANGED <<mode, name, value, ops, df>>

HasActiveFilters ==
    /\ mode = "filter dict" /\ call = NoCall
    /\ \E years \in YearsArgsMore, license_types \in LicenseArgsMore,
          c \in CountyArgs :
        LET filters == FilterDict(years, license_types, c.counties, c.county)
        IN  /\ call' = FilterCall("has_active_filters", NoTable, filters)
            /\ ret' = [kind |-> "bool", v |-> has_active_filters(filters)]
    /\ UNCHANGED <<mode, name, value, ops, df>>

NextFilters ==
    \/ ApplyDispensaryFilters
    \/ ApplySentimentFilters
    \/ ApplyDensityFilters
    \/ NormalizeDataframeCounties
    \/ ValidateLoadedYears
    \/ GetFilterSummary
    \/ HasActiveFilters

SpecFilters == (InitFilters \/ InitFilterDict) /\ [][NextFilters]_vars

(***************************************************************************)
(* The quality metrics.  A completeness is a float in the code; here it is *)
(* the exact quotient the float approximates, kept as numerator and        *)
(* denominator and computed by the same steps.                             *)
(***************************************************************************)
Rat(n, d) == [n |-> n, d |-> d]
RatMinus(a, b) == Rat(a.n * b.d - b.n * a.d, a.d * b.d)
RatTimes(a, k) == Rat(a.n * k, a.d)
RatEq(a, b) == a.n * b.d = b.n * a.d
RatLe(a, b) == a.n * b.d <= b.n * a.d

\* pd.isna of a cell
IsNullCell(c) == IF "k" \in DOMAIN c THEN c.k = "missing" ELSE IsNA(c)

RECURSIVE Sum(_)
Sum(ns) == IF ns = <<>> THEN 0 ELSE Head(ns) + Sum(Tail(ns))

ColumnNames == <<"County", "Year", "License Number", "Dispensary Name", "License Type">>

\* the columns of a table, in a fixed order
ColumnList(table) ==
    LET Test(c) == c \in DOMAIN table.cols
    IN  SelectSeq(ColumnNames, Test)

\* df.isna().sum().sum()
NullCells(table) ==
    LET columns == ColumnList(table)
    IN  Sum([j \in 1..Len(columns) |->
                Cardinality({i \in 1..table.rows :
                                IsNullCell(table.cols[columns[j]][i])})])

\* df.size
Size(table) == table.rows * Cardinality(DOMAIN table.cols)

\* df.empty
Empty(table) == table.rows = 0 \/ DOMAIN table.cols = {}

\* df["County"].nunique(): missing values are not counted
NUnique(cells) == Cardinality({cells[i] : i \in {j \in 1..Len(cells) : ~IsNullCell(cells[j])}})

Max(S) == CHOOSE x \in S : \A y \in S : y <= x
Min(S) == CHOOSE x \in S : \A y \in S : x <= y

NoRange == [some |-> FALSE, lo |-> 0, hi |-> 0]

\* f"{int(years.min())}-{int(years.max())}" over the non-null years
YearRange(cells) ==
    LET years == {cells[i].v : i \in {j \in 1..Len(cells) : ~IsNullCell(cells[j])}}
    IN  IF years # {} THEN [some |-> TRUE, lo |-> Min(years), hi |-> Max(years)]
        ELSE NoRange

\* a slip: the cells are counted as the rows
QualityMetrics_rows(table) ==
    LET total_records == table.rows
        total_cells == table.rows
        null_cells == NullCells(table)
        completeness ==
            IF total_cells > 0
            THEN RatTimes(RatMinus(Rat(1, 1), Rat(null_cells, total_cells)), 100)
            ELSE Rat(0, 1)
    IN  [total_records |-> total_records,
         completeness |-> completeness,
         null_cells |-> null_cells,
         unique_counties |->
            IF HasColumn(table, "County") THEN Some(NUnique(table.cols["County"]))
            ELSE None,
         year_range |->
            IF HasColumn(table, "Year") THEN YearRange(table.cols["Year"])
            ELSE NoRange]

\* the metrics of one table (the loop body); a key the code leaves out is
\* None / NoRange here
QualityMetrics(table) ==
    LET total_records == table.rows
        total_cells == Size(table)
        null_cells == NullCells(table)
        completeness ==
            IF total_cells > 0
            THEN RatTimes(RatMinus(Rat(1, 1), Rat(null_cells, total_cells)), 100)
            ELSE Rat(0, 1)
    IN  [total_records |-> total_records,
         completeness |-> completeness,
         null_cells |-> null_cells,
         unique_counties |->
            IF HasColumn(table, "County") THEN Some(NUnique(table.cols["County"]))
            ELSE None,
         year_range |->
            IF HasColumn(table, "Year") THEN YearRange(table.cols["Year"])
            ELSE NoRange]

\* cached_calculations.get_data_quality_metrics: a table that is None or
\* empty gets no entry
get_data_quality_metrics(data_dict) ==
    [n \in {m \in DOMAIN data_dict :
               data_dict[m] # PyNone /\ ~Empty(data_dict[m])} |->
        QualityMetrics(data_dict[n])]

MaxQualityRows == 2

QualityRows ==
    {<<county, year>> :
        county \in {PyStr(LA \o CountySuffix), PyStr(SD), PyNaN},
        year \in {Num(2020), Num(2021), Missing}}

QualityColumnSets == {{"County", "Year"}, {"County"}, {"Year"}, {}}

\* 20 rows of 5 columns, the County missing in 5 of the rows
HundredCells ==
    Table(20,
          [c \in SetOf(ColumnNames) |->
              [i \in 1..20 |->
                  CASE c = "County" -> IF i <= 5 THEN PyNaN ELSE PyStr(LA \o CountySuffix)
                    [] c = "Year" -> Num(2020)
                    [] OTHER -> Text]])

QualityTables ==
    {Table(Len(rows),
           [c \in columns |->
               [i \in 1..Len(rows) |->
                   IF c = "County" THEN rows[i][1] ELSE rows[i][2]]]) :
        rows \in Seqs(QualityRows, 0, MaxQualityRows),
        columns \in QualityColumnSets}
    \cup {HundredCells}

DatasetNames == {"Dispensaries", "Density", "Tweet Sentiment"}

\* what a second name of the dictionary holds, if there is one
OtherTables ==
    {PyNone, Table(0, [c \in {"County", "Year"} |-> <<>>]),
     Table(1, [c \in {"Year"} |-> <<Num(2022)>>])}

InitQuality ==
    /\ mode = "quality"
    /\ df \in QualityTables
    /\ call = NoCall
    /\ ret = NoReturn
    /\ name = PyNone
    /\ value = PyNone
    /\ ops = <<>>

GetDataQualityMetrics ==
    /\ mode = "quality" /\ call = NoCall
    /\ \E first \in DatasetNames :
        \/ LET data_dict == [n \in {first} |-> df]
           IN  /\ call' = [fn |-> "get_data_quality_metrics", name |-> first,
                           data_dict |-> data_dict]
               /\ ret' = [kind |-> "metrics",
                          metrics |-> get_data_quality_metrics(data_dict)]
        \/ \E second \in DatasetNames \ {first}, other \in OtherTables :
            LET data_dict == [n \in {first, second} |->
                                 IF n = first THEN df ELSE other]
            IN  /\ call' = [fn |-> "get_data_quality_metrics", name |-> first,
                            data_dict |-> data_dict]
                /\ ret' = [kind |-> "metrics",
                           metrics |-> get_data_quality_metrics(data_dict)]
    /\ UNCHANGED <<mode, name, value, ops, df>>

NextQuality == GetDataQualityMetrics

SpecQuality == InitQuality /\ [][NextQuality]_vars

(***************************************************************************)
(* validate_all_datasets and the Data Quality page that calls it.          *)
(***************************************************************************)
DispensariesPreset ==
    <<[type |-> "year", column |-> "Year", min_year |-> PresetMinYear]>>

DensityPreset ==
    <<[type |-> "positive", column |-> "Population", allow_zero |-> FALSE,
       display_name |-> "Population"],
      [type |-> "positive", column |-> "Dispensary_PerCapita", allow_zero |-> TRUE,
       display_name |-> "Dispensary Density"]>>

SentimentPreset ==
    <<[type |-> "sentiment", column |-> "BERT_Sentiment"],
      [type |-> "year", column |-> "Year", min_year |-> PresetMinYear]>>

\* data_validation.validate_all_datasets: a rule set is run for each of the
\* three keys the dictionary has; any other key is passed over
validate_all_datasets(data_dict, now) ==
    [n \in DOMAIN data_dict \cap {"dispensaries", "density", "tweet_sentiment"} |->
        CASE n = "dispensaries" ->
                 validate_dataset(data_dict[n], "Dispensaries", DispensariesPreset, now)
          [] n = "density" ->
                 validate_dataset(data_dict[n], "Density", DensityPreset, now)
          [] OTHER ->
                 validate_dataset(data_dict[n], "Tweet Sentiment", SentimentPreset, now)]

MaxDatasetRows == 1

DispensariesTables ==
    {Table(Len(y), [Year |-> y]) :
        y \in Seqs({Num(2020), Num(2027)}, 0, MaxDatasetRows)}

DensityTables ==
    UNION {{Table(n, [Population |-> p, Dispensary_PerCapita |-> d]) :
                p \in [1..n -> {Num(0), Num(1)}], d \in [1..n -> {Num(0), Num(-1)}]} :
           n \in 0..MaxDatasetRows}

SentimentTables ==
    UNION {{Table(n, [BERT_Sentiment |-> s, Year |-> y]) :
                s \in [1..n -> {Num(-1), Num(2)}], y \in [1..n -> {Num(2020), Num(2027)}]} :
           n \in 0..MaxDatasetRows}

\* the dictionary the Data Quality page builds from the loaded tables
PageDataDict(dispensaries, density, tweet_sentiment) ==
    [n \in {"Dispensaries", "Density", "Tweet Sentiment"} |->
        CASE n = "Dispensaries" -> dispensaries
          [] n = "Density" -> density
          [] OTHER -> tweet_sentiment]

\* the dictionary the tests build
TestDataDict(dispensaries, density, tweet_sentiment) ==
    [n \in {"dispensaries", "density", "tweet_sentiment"} |->
        CASE n = "dispensaries" -> dispensaries
          [] n = "density" -> density
          [] OTHER -> tweet_sentiment]

\* load_data(): the three tables, held under the loader's keys in df
InitDatasets ==
    /\ mode = "datasets"
    /\ \E dispensaries \in DispensariesTables, density \in DensityTables,
          tweet_sentiment \in SentimentTables :
        df = TestDataDict(dispensaries, density, tweet_sentiment)
    /\ call = NoCall
    /\ ret = NoReturn
    /\ name = PyNone
    /\ value = PyNone
    /\ ops = <<>>

\* the Data Quality page: data_dict is built and handed to validate_all_datasets
DataQualityPage ==
    /\ mode = "datasets" /\ call = NoCall
    /\ \E now \in NowYears :
        LET data_dict == PageDataDict(df["dispensaries"], df["density"],
                                      df["tweet_sentiment"])
        IN  /\ call' = [fn |-> "validate_all_datasets", caller |-> "page",
                        data_dict |-> data_dict, now |-> now]
            /\ ret' = [kind |-> "all datasets",
                       results |-> validate_all_datasets(data_dict, now)]
    /\ UNCHANGED <<mode, name, value, ops, df>>

\* validate_all_datasets called with the keys it looks for, as the tests do
ValidateAllDatasets ==
    /\ mode = "datasets" /\ call = NoCall
    /\ \E now \in NowYears :
        /\ call' = [fn |-> "validate_all_datasets", caller |-> "test",
                    data_dict |-> df, now |-> now]
        /\ ret' = [kind |-> "all datasets",
                   results |-> validate_all_datasets(df, now)]
    /\ UNCHANGED <<mode, name, value, ops, df>>

\* the year rule with its default maximum, on the dispensaries table
ValidateDispensaryYears ==
    /\ mode = "datasets" /\ call = NoCall
    /\ \E now \in NowYears :
        /\ call' = [fn |-> "validate_year_column", caller |-> "test",
                    data_dict |-> df, now |-> now]
        /\ ret' = validate_year_column(df["dispensaries"], "Year",
                                       DefaultMinYear, None, now)
    /\ UNCHANGED <<mode, name, value, ops, df>>

NextDatasets ==
    \/ DataQualityPage
    \/ ValidateAllDatasets
    \/ ValidateDispensaryYears

SpecDatasets == InitDatasets /\ [][NextDatasets]_vars

(***************************************************************************)
(* The aggregations.  A date is kept as its calendar month, counted in     *)
(* months (12 * year + month); a mean is an exact quotient, or NaN.        *)
(***************************************************************************)
Month(year, month) == 12 * year + month

NaNValue == [some |-> FALSE, n |-> 0, d |-> 1]
Quotient(n, d) == [some |-> TRUE, n |-> n, d |-> d]

\* series.mean(): NaN for an empty series
Mean(ns) == IF ns = <<>> THEN NaNValue ELSE Quotient(Sum(ns), Len(ns))

\* pd.to_datetime(Year + "-" + Month + "-01"), or the Tweet_Date column
TweetDates(table) ==
    IF ~HasColumn(table, "Tweet_Date") /\ HasColumn(table, "Year")
    THEN [i \in 1..table.rows |->
             Num(Month(table.cols["Year"][i].v, table.cols["Month"][i].v))]
    ELSE table.cols["Tweet_Date"]

\* the scores of the rows whose date falls in the month, in row order
ScoresOfMonth(dates, scores, month) ==
    Masked([i \in 1..Len(scores) |-> scores[i].v],
           [i \in 1..Len(dates) |-> dates[i].k = "num" /\ dates[i].v = month])

\* cached_calculations.calculate_monthly_sentiment: pd.Grouper(freq="ME")
\* makes one bin for every month from the first to the last date, with or
\* without rows; the aggregates of a bin without rows are NaN, 0 and NaN
calculate_monthly_sentiment(sentiment_df) ==
    LET dates == TweetDates(sentiment_df)
        scores == sentiment_df.cols["BERT_Sentiment"]
        months == {dates[i].v : i \in {j \in 1..Len(dates) : dates[j].k = "num"}}
    IN  IF months = {} THEN <<>>
        ELSE [b \in 1..(Max(months) - Min(months) + 1) |->
                 LET month == Min(months) + b - 1
                     x == ScoresOfMonth(dates, scores, month)
                     positive == [i \in 1..Len(x) |-> IF x[i] > 0 THEN 1 ELSE 0]
                 IN  [Date |-> month,
                      Sentiment |-> Mean(x),
                      Volume |-> Len(x),
                      Positive_Ratio |->
                          IF x = <<>> THEN NaNValue
                          ELSE Quotient(100 * Sum(positive), Len(x))]]

MaxSentimentRows == 3

\* January, February and April of one year
SentimentMonths == {<<2020, 1>>, <<2020, 2>>, <<2020, 4>>}
SentimentScores == {Num(-1), Num(0), Num(1)}

MonthlyTables ==
    UNION {{Table(n, [Tweet_Date |-> [i \in 1..n |-> Num(Month(m[i][1], m[i][2]))],
                      BERT_Sentiment |-> s]) :
                m \in [1..n -> SentimentMonths], s \in [1..n -> SentimentScores]}
           \cup
           {Table(n, [Year |-> [i \in 1..n |-> Num(m[i][1])],
                      Month |-> [i \in 1..n |-> Num(m[i][2])],
                      BERT_Sentiment |-> s]) :
                m \in [1..n -> SentimentMonths], s \in [1..n -> SentimentScores]} :
           n \in 0..MaxSentimentRows}

InitMonthly ==
    /\ mode = "monthly"
    /\ df \in MonthlyTables
    /\ call = NoCall
    /\ ret = NoReturn
    /\ name = PyNone
    /\ value = PyNone
    /\ ops = <<>>

CalculateMonthlySentiment ==
    /\ mode = "monthly" /\ call = NoCall
    /\ call' = [fn |-> "calculate_monthly_sentiment", table |-> df]
    /\ ret' = [kind |-> "monthly", rows |-> calculate_monthly_sentiment(df)]
    /\ UNCHANGED <<mode, name, value, ops, df>>

NextMonthly == CalculateMonthlySentiment

SpecMonthly == InitMonthly /\ [][NextMonthly]_vars

\* [c + " County" if not c.endswith(" County") else c for c in counties]
CountiesFormatted(counties) ==
    [j \in 1..Len(counties) |->
        IF ~EndsWith(counties[j], CountySuffix)
        THEN counties[j] \o CountySuffix
        ELSE counties[j]]

\* density_df[density_df["County"].isin(counties)]["Dispensary_PerCapita"]
\*     .mean(), which skips the missing values
RegionMean(density_df, counties) ==
    LET county == density_df.cols["County"]
        density == density_df.cols["Dispensary_PerCapita"]
        isin == [i \in 1..Len(county) |->
                    /\ \E j \in 1..Len(counties) : county[i] = PyStr(counties[j])
                    /\ density[i].k = "num"]
    IN  Mean(Masked([i \in 1..Len(density) |-> density[i].v], isin))

\* the loop without the pd.isna guard on the mean
calculate_regional_density_nan(density_df, region_mapping) ==
    [r \in 1..Len(region_mapping) |->
        [Region |-> region_mapping[r][1],
         Average_Density |->
             RegionMean(density_df, CountiesFormatted(region_mapping[r][2]))]]

\* cached_calculations.calculate_regional_density; the mapping is the
\* sequence of its (region, counties) items
calculate_regional_density(density_df, region_mapping) ==
    [r \in 1..Len(region_mapping) |->
        LET counties_formatted == CountiesFormatted(region_mapping[r][2])
            avg_density == RegionMean(density_df, counties_formatted)
        IN  [Region |-> region_mapping[r][1],
             Average_Density |->
                 IF avg_density.some THEN avg_density ELSE Quotient(0, 1)]]

HU == <<"H", "U">>

\* config.regions.SIMPLE_REGIONS, cut to two regions of bare names
SIMPLE_REGIONS == << <<"Northern", <<HU>> >>, <<"Southern", <<LA, SD>> >> >>

\* a mapping whose names carry the suffix already, and one with no region
RegionMappings ==
    {SIMPLE_REGIONS,
     << <<"Southern", <<LA \o CountySuffix, SD>> >> >>,
     <<>>}

MaxDensityRows == 2

DensityCounties ==
    {PyStr(LA), PyStr(LA \o CountySuffix), PyStr(SD \o CountySuffix),
     PyStr(<<"X", "X">> \o CountySuffix)}
DensityValues == {Num(1), Num(2), Missing}

RegionalTables ==
    UNION {{Table(n, [County |-> c, Dispensary_PerCapita |-> d]) :
                c \in [1..n -> DensityCounties], d \in [1..n -> DensityValues]} :
           n \in 0..MaxDensityRows}

InitRegional ==
    /\ mode = "regional"
    /\ df \in RegionalTables
    /\ call = NoCall
    /\ ret = NoReturn
    /\ name = PyNone
    /\ value = PyNone
    /\ ops = <<>>

CalculateRegionalDensity ==
    /\ mode = "regional" /\ call = NoCall
    /\ \E region_mapping \in RegionMappings :
         /\ call' = [fn |-> "calculate_regional_density", table |-> df,
                     mapping |-> region_mapping]
         /\ ret' = [kind |-> "regional",
                    rows |-> calculate_regional_density(df, region_mapping)]
    /\ UNCHANGED <<mode, name, value, ops, df>>

\* pages/02-Geographic Analysis.py: the County column is normalized in
\* place, and the regional loop then runs over SIMPLE_REGIONS
GeographicAnalysisPage ==
    /\ mode = "regional" /\ call = NoCall
    /\ LET density ==
               Table(df.rows,
                     [df.cols EXCEPT !["County"] =
                         [i \in 1..df.rows |->
                             normalize_county_name(df.cols["County"][i])]])
       IN  /\ df' = density
           /\ call' = [fn |-> "Geographic Analysis", table |-> df,
                       mapping |-> SIMPLE_REGIONS]
           /\ ret' = [kind |-> "regional",
                      rows |-> calculate_regional_density(density, SIMPLE_REGIONS)]
    /\ UNCHANGED <<mode, name, value, ops>>

NextRegional == CalculateRegionalDensity \/ GeographicAnalysisPage

SpecRegional == InitRegional /\ [][NextRegional]_vars

(***************************************************************************)
(* The GeoJSON loader.  A JSON value is a record tagged by its Python      *)
(* type; a dict carries the function d from its keys to their values.      *)
(***************************************************************************)
JNull == [j |-> "NoneType"]
JStr(s) == [j |-> "str", s |-> s]
JList(items) == [j |-> "list", items |-> items]
JDict(d) == [j |-> "dict", d |-> d]

\* raise ValueError(...), one message per check, with the feature index
\* as <<i>>, or <<>> for the checks on the document
GeoError(message, i) ==
    [kind |-> "raised", exc |-> "ValueError", message |-> message, feature |-> i]
NoFeature == <<>>
Returned(data) == [kind |-> "returned", data |-> data]

FeaturesChecked == 5

MaxFeatures == 6

\* the checks of the loop body on features[i], in order
FeatureError(feature, i) ==
    IF feature.j # "dict" THEN GeoError("is not a dictionary", <<i>>)
    ELSE IF "type" \notin DOMAIN feature.d \/ feature.d["type"] # JStr("Feature")
         THEN GeoError("missing or invalid 'type' field", <<i>>)
    ELSE IF "geometry" \notin DOMAIN feature.d
         THEN GeoError("missing 'geometry' field", <<i>>)
    ELSE IF "properties" \notin DOMAIN feature.d
         THEN GeoError("missing 'properties' field", <<i>>)
    ELSE NoReturn

\* for i, feature in enumerate(features[:limit]), from index i on
RECURSIVE ValidateFeatures(_, _, _)
ValidateFeatures(features, i, limit) ==
    IF i >= Len(features) \/ i >= limit THEN NoReturn
    ELSE LET error == FeatureError(features[i + 1], i)
         IN  IF error # NoReturn THEN error
             ELSE ValidateFeatures(features, i + 1, limit)

\* the validation of the parsed document
ValidateDocument(data, limit) ==
    IF data.j # "dict" THEN GeoError("must be a dictionary", NoFeature)
    ELSE IF Get(data.d, "type", JNull) # JStr("FeatureCollection")
         THEN GeoError("must be a FeatureCollection", NoFeature)
    ELSE IF "features" \notin DOMAIN data.d
         THEN GeoError("must contain 'features' array", NoFeature)
    ELSE LET features == data.d["features"]
         IN  IF features.j # "list"
             THEN GeoError("'features' must be a list", NoFeature)
             ELSE IF Len(features.items) = 0
                  THEN GeoError("contains no features", NoFeature)
             ELSE LET error == ValidateFeatures(features.items, 0, limit)
                  IN  IF error # NoReturn THEN error ELSE Returned(data)

\* the loader with a loop over every feature
load_geojson_all(file) ==
    IF ~file.exists THEN Raised("FileNotFoundError")
    ELSE IF ~file.json THEN GeoError("Invalid JSON", NoFeature)
    ELSE ValidateDocument(file.data, FeaturesChecked + MaxFeatures)

\* load_geojson.load_geojson
load_geojson(file) ==
    IF ~file.exists THEN Raised("FileNotFoundError")
    ELSE IF ~file.json THEN GeoError("Invalid JSON", NoFeature)
    ELSE ValidateDocument(file.data, FeaturesChecked)

\* a dict with the given keys, of the given "type"
FeatureDict(keys, type) ==
    JDict([k \in keys |-> IF k = "type" THEN JStr(type) ELSE JDict(<<>>)])

ValidFeature == FeatureDict({"type", "geometry", "properties"}, "Feature")

\* a valid feature, and features failing one check or two
Features ==
    {ValidFeature,
     JStr("Feature"),
     FeatureDict({"type", "properties"}, "Polygon"),
     FeatureDict({"type"}, "Feature"),
     FeatureDict({"type", "geometry"}, "Feature")}

FeatureLists == UNION {[1..n -> Features] : n \in 0..MaxFeatures}

Documents ==
    {JList(<<>>), JStr("FeatureCollection"), JNull,
     JDict(<<>>),
     JDict([k \in {"features"} |-> JList(<<ValidFeature>>)]),
     JDict([k \in {"type"} |-> JStr("FeatureCollection")]),
     JDict([k \in {"type", "features"} |->
               IF k = "type" THEN JStr("Feature") ELSE JList(<<ValidFeature>>)]),
     JDict([k \in {"type", "features"} |->
               IF k = "type" THEN JStr("FeatureCollection") ELSE JDict(<<>>)])}
    \cup {JDict([k \in {"type", "features"} |->
                    IF k = "type" THEN JStr("FeatureCollection") ELSE JList(fs)]) :
             fs \in FeatureLists}

Files ==
    {[exists |-> FALSE, json |-> FALSE, data |-> JNull],
     [exists |-> TRUE, json |-> FALSE, data |-> JNull]}
    \cup {[exists |-> TRUE, json |-> TRUE, data |-> data] : data \in Documents}

InitGeojson ==
    /\ mode = "geojson"
    /\ df \in Files
    /\ call = NoCall
    /\ ret = NoReturn
    /\ name = PyNone
    /\ value = PyNone
    /\ ops = <<>>

LoadGeojson ==
    /\ mode = "geojson" /\ call = NoCall
    /\ call' = [fn |-> "load_geojson", file |-> df]
    /\ ret' = load_geojson(df)
    /\ UNCHANGED <<mode, name, value, ops, df>>

NextGeojson == LoadGeojson

SpecGeojson == InitGeojson /\ [][NextGeojson]_vars

(***************************************************************************)
(* The whole model: either component, from its initial states.             *)
(***************************************************************************)
Init == InitCounty \/ InitValidation \/ InitFilters \/ InitFilterDict
        \/ InitQuality \/ InitDatasets \/ InitMonthly
        \/ InitRegional \/ InitGeojson

Next == NextCounty \/ NextValidation \/ NextFilters \/ NextQuality
        \/ NextDatasets \/ NextMonthly \/ NextRegional \/ NextGeojson

Spec == Init /\ [][Next]_vars

(***************************************************************************)
(* Claims about the validation engine (checked under SpecValidation).      *)
(***************************************************************************)
RuleFunctions ==
    {"validate_positive_numeric", "validate_range", "validate_year_column",
     "validate_sentiment_score", "validate_percentage"}

\* one of the five rules was called directly
RuleCalled == mode = "validation" /\ call.fn \in RuleFunctions

DatasetCalled == mode = "validation" /\ call.fn = "validate_dataset"

\* a failing result that reports a column the table does not have
IsNotFound(r) ==
    /\ r.kind = "result"
    /\ ~r.is_valid
    /\ r.invalid_count = 0
    /\ r.message.kind = "not found"

\* C5: for every rule type, validating a column that is not in the table
\* returns is_valid=False, invalid_count=0 and a 'not found' message,
\* whatever the table holds; the same when the rule runs in a batch.
C5_MissingColumn ==
    /\ (RuleCalled /\ ~HasColumn(df, call.column)) => IsNotFound(ret)
    /\ DatasetCalled =>
         \A i \in 1..Len(call.validations) :
            LET config == call.validations[i]
            IN  (/\ Get(config, "type", "None") \in RuleTypes
                 /\ Get(config, "column", "") # ""
                 /\ ~HasColumn(df, Get(config, "column", "")))
                    => /\ ret.kind = "dataset"
                       /\ Len(ret.results) >= i
                       /\ IsNotFound(ret.results[i])

C5_Witness ==
    /\ call.fn = "validate_sentiment_score"
    /\ call.column = "nonexistent"
    /\ df.cols = [value |-> <<Num(3), Text, Num(-1)>>]
    /\ IsNotFound(ret)

IsNumeric(cell) == cell.k \in {"num", "numtext"}

\* the rows of a column whose number lies below min_value or above max_value
RangeViolations(cells, min_value, max_value) ==
    {i \in 1..Len(cells) :
        /\ IsNumeric(cells[i])
        /\ \/ min_value.some /\ cells[i].v < min_value.v
           \/ max_value.some /\ cells[i].v > max_value.v}

\* the j-th row, in row order, of a set of rows
NthRow(rows, j) == CHOOSE i \in rows : Cardinality({k \in rows : k <= i}) = j

\* invalid_values is the cells of the first min(5, |rows|) of the rows
IsSampleOf(invalid_values, cells, rows) ==
    /\ Len(invalid_values) = (IF Cardinality(rows) < 5 THEN Cardinality(rows) ELSE 5)
    /\ \A j \in 1..Len(invalid_values) : invalid_values[j] = cells[NthRow(rows, j)]

\* C6: validate_range on a present column is valid with invalid_count 0
\* exactly when no numeric value is below min_value or above max_value (an
\* omitted bound is not checked); otherwise invalid_count is the number of
\* violating rows and invalid_values the original values of the first
\* min(5, invalid_count) of them, in row order.
C6_Range ==
    (mode = "validation" /\ call.fn = "validate_range" /\ HasColumn(df, call.column))
        => LET cells == df.cols[call.column]
               bad == RangeViolations(cells, call.min_value, call.max_value)
           IN  /\ ret.kind = "result"
               /\ ret.is_valid <=> bad = {}
               /\ ret.invalid_count = Cardinality(bad)
               /\ IsSampleOf(ret.invalid_values, cells, bad)

C6_Witness ==
    /\ call.fn = "validate_range"
    /\ call.min_value = Some(0) /\ call.max_value = Some(1)
    /\ df.cols = [value |-> <<Num(3), Num(1), Num(-1), Num(3), Num(3), Num(-1), Num(-1)>>]
    /\ ~ret.is_valid
    /\ ret.invalid_count = 6
    /\ ret.invalid_values = <<Num(3), Num(-1), Num(3), Num(3), Num(-1)>>

\* the rows of a column that validate_positive_numeric is to reject
PositiveViolations(cells, allow_zero) ==
    {i \in 1..Len(cells) :
        /\ IsNumeric(cells[i])
        /\ IF allow_zero THEN cells[i].v < 0 ELSE cells[i].v <= 0}

\* C7: validate_positive_numeric counts a value as invalid exactly when it is
\* < 0 with allow_zero, <= 0 without; the result is valid iff the count is 0;
\* the column [0,1,2,3] without allow_zero gives False, 1 and [0].
C7_Positive ==
    (/\ mode = "validation"
     /\ call.fn = "validate_positive_numeric"
     /\ HasColumn(df, call.column))
        => LET cells == df.cols[call.column]
               bad == PositiveViolations(cells, call.allow_zero)
           IN  /\ ret.kind = "result"
               /\ ret.invalid_count = Cardinality(bad)
               /\ ret.is_valid <=> Cardinality(bad) = 0
               /\ (cells = <<Num(0), Num(1), Num(2), Num(3)>> /\ ~call.allow_zero)
                     => /\ ~ret.is_valid
                        /\ ret.invalid_count = 1
                        /\ ret.invalid_values = <<Num(0)>>

C7_Witness ==
    /\ call.fn = "validate_positive_numeric"
    /\ ~call.allow_zero
    /\ df.cols = [value |-> <<Num(0), Num(1), Num(2), Num(3)>>]
    /\ ret.invalid_values = <<Num(0)>>

\* the call of a rule repeated on another table
Recall(table) ==
    CASE call.fn = "validate_positive_numeric" ->
            validate_positive_numeric(table, call.column, call.allow_zero,
                                      call.display_name)
      [] call.fn = "validate_range" ->
            validate_range(table, call.column, call.min_value, call.max_value, "")
      [] call.fn = "validate_year_column" ->
            validate_year_column(table, call.column, call.min_year,
                                 call.max_year, call.now)
      [] call.fn = "validate_sentiment_score" ->
            validate_sentiment_score(table, call.column, call.min_score,
                                     call.max_score)
      [] call.fn = "validate_percentage" ->
            validate_percentage(table, call.column, call.display_name)

\* the table without the rows whose cell in the column is no number
NumericRows(table, column) ==
    LET keep == [i \in 1..table.rows |-> IsNumeric(table.cols[column][i])]
    IN  Table(MaskSum(keep),
              [c \in DOMAIN table.cols |-> Masked(table.cols[c], keep)])

\* C8: in every numeric rule a value that is no number (or is missing) is not
\* counted, not sampled, does not make the result invalid and does not raise:
\* the verdict, the count and the sample are those of the table without such
\* rows, and a column of only such values is valid.
C8_CoercionIgnored ==
    (RuleCalled /\ HasColumn(df, call.column))
        => LET cells == df.cols[call.column]
               clean == Recall(NumericRows(df, call.column))
           IN  /\ ret.kind = "result"
               /\ \A j \in 1..Len(ret.invalid_values) : IsNumeric(ret.invalid_values[j])
               /\ ret.is_valid = clean.is_valid
               /\ ret.invalid_count = clean.invalid_count
               /\ ret.invalid_values = clean.invalid_values
               /\ (\A i \in 1..Len(cells) : ~IsNumeric(cells[i]))
                     => ret.is_valid /\ ret.invalid_count = 0

C8_Witness ==
    /\ call.fn = "validate_positive_numeric"
    /\ df.cols = [value |-> <<Text, Missing, Text>>]
    /\ ret.kind = "result"
    /\ ret.is_valid

\* C9: validate_dataset returns one result per rule configuration, in the
\* order of the list, and the overall flag is the AND of their is_valid
\* (True for the empty list).
C9_OneResultPerRule ==
    DatasetCalled
        => /\ ret.kind = "dataset"
           /\ Len(ret.results) = Len(call.validations)
           /\ \A i \in 1..Len(call.validations) :
                ret.results[i] = run_validation(df, call.validations[i], call.now)
           /\ ret.all_valid <=> \A i \in 1..Len(ret.results) : ret.results[i].is_valid

C9_Witness ==
    /\ call.fn = "validate_dataset"
    /\ Len(call.validations) = 2
    /\ ret.results[1].column = "Year" /\ ~ret.results[1].is_valid
    /\ ret.results[2].column = "value" /\ ret.results[2].is_valid
    /\ ~ret.all_valid

\* a configuration without a target column, or of an unknown rule type
IsMisconfigured(config) ==
    \/ Get(config, "column", "") = ""
    \/ Get(config, "type", "None") \notin RuleTypes

\* C10: a rule configuration with no target column or with an unknown rule
\* type yields its own failing result (invalid_count 0) and makes the overall
\* flag False; it is not skipped, nothing is raised, and the rules after it
\* are still executed.
C10_Misconfigured ==
    DatasetCalled
        => \A i \in 1..Len(call.validations) :
             IsMisconfigured(call.validations[i])
                => /\ ret.kind = "dataset"
                   /\ ~ret.all_valid
                   /\ Len(ret.results) = Len(call.validations)
                   /\ ~ret.results[i].is_valid
                   /\ ret.results[i].invalid_count = 0
                   /\ ret.results[i].message.kind \in
                         {"missing column parameter", "unknown validation type"}
                   /\ \A j \in (i + 1)..Len(call.validations) :
                        ~IsMisconfigured(call.validations[j])
                           => ret.results[j].column = call.validations[j].column

C10_Witness ==
    /\ call.fn = "validate_dataset"
    /\ call.validations = <<[type |-> "positive"],
                            [type |-> "sentiment", column |-> "value"]>>
    /\ ret.results[1].message.kind = "missing column parameter"
    /\ ret.results[2].is_valid
    /\ ~ret.all_valid

(***************************************************************************)
(* Claims about the filters (checked under SpecFilters).                   *)
(***************************************************************************)
FilterFunctions ==
    {"apply_dispensary_filters", "apply_sentiment_filters", "apply_density_filters"}

FilterCalled == call.fn \in FilterFunctions

\* the rows of a table, each a mapping from column name to cell
Rows(table) ==
    [i \in 1..table.rows |-> [c \in DOMAIN table.cols |-> table.cols[c][i]]]

InYearRange(cell, years) ==
    cell.k = "num" /\ years[1] <= cell.v /\ cell.v <= years[2]

RowsInYearRange(table, years) ==
    LET Test(row) == InYearRange(row["Year"], years)
    IN  SelectSeq(Rows(table), Test)

\* C11: each of the three filter functions, asked to filter by years =
\* (min, max) on a table with a Year column, keeps only rows with
\* min <= Year <= max, both ends included; when the years are the only filter
\* given, it returns exactly those rows, in order, with the table's columns.
\* The result may be empty.
C11_YearRange ==
    (FilterCalled /\ HasValue(call.filters, "years")
                  /\ HasColumn(call.table, "Year"))
        => /\ ret.kind = "frame"
           /\ \A i \in 1..ret.result.rows :
                InYearRange(ret.result.cols["Year"][i], call.filters["years"])
           /\ DOMAIN call.filters = {"years"}
                => /\ Rows(ret.result)
                        = RowsInYearRange(call.table, call.filters["years"])
                   /\ DOMAIN ret.result.cols = DOMAIN call.table.cols

C11_Witness ==
    /\ call.fn = "apply_density_filters"
    /\ call.filters = [years |-> <<2020, 2021>>]
    /\ call.table.rows = 2
    /\ HasColumn(call.table, "Year")
    /\ call.table.cols["Year"] = <<Num(2021), Num(2018)>>
    /\ ret.result.rows = 1
    /\ ret.result.cols["Year"] = <<Num(2021)>>

OnlySentinel(filters) ==
    /\ DOMAIN filters # {}
    /\ DOMAIN filters \subseteq {"counties", "county"}
    /\ "county" \in DOMAIN filters => filters["county"] = AllCounties
    /\ "counties" \in DOMAIN filters => InList(AllCounties, filters["counties"])

\* C12: a filter specification whose only restriction is the "All Counties"
\* sentinel, given as the legacy county value or as a member of the counties
\* list, makes each filter function return as many rows as the table has
\* (indeed the same rows).
C12_SentinelKeepsAll ==
    (FilterCalled /\ OnlySentinel(call.filters))
        => /\ ret.kind = "frame"
           /\ ret.result.rows = call.table.rows
           /\ Rows(ret.result) = Rows(call.table)

C12_Witness ==
    /\ call.fn = "apply_dispensary_filters"
    /\ call.filters = [counties |-> <<AllCounties, PyStr(LA)>>]
    /\ call.table.rows = 2
    /\ HasColumn(call.table, "County")
    /\ call.table.cols["County"][1] = PyStr(SD \o CountySuffixLower \o <<" ">>)
    /\ ret.result.rows = 2

ApplyByName(fn, table, filters) ==
    CASE fn = "apply_dispensary_filters" -> apply_dispensary_filters(table, filters)
      [] fn = "apply_sentiment_filters" -> apply_sentiment_filters(table, filters)
      [] OTHER -> apply_density_filters(table, filters)

Without(filters, keys) == [k \in DOMAIN filters \ keys |-> filters[k]]

WithCounty(filters, county) ==
    [k \in DOMAIN filters \cup {"county"} |->
        IF k = "county" THEN county ELSE filters[k]]

\* the filter dictionaries that differ from `filters` at most in the legacy
\* county value: it is removed or replaced
LegacyVariants(filters) ==
    {Without(filters, {"county"})}
        \cup {WithCounty(filters, c) : c \in CountyValues \cup {AllCounties}}

\* what the call made would have returned had the filter dictionary been g
SameAnswer(g) ==
    CASE call.fn \in {"apply_dispensary_filters", "apply_sentiment_filters"} ->
             ret.result = ApplyByName(call.fn, call.table, g).result
      [] call.fn = "get_filter_summary" -> ret = get_filter_summary(g)
      [] call.fn = "has_active_filters" -> ret.v = has_active_filters(g)
      [] OTHER -> TRUE

PrecedenceCall ==
    call.fn \in {"apply_dispensary_filters", "apply_sentiment_filters",
                 "get_filter_summary", "has_active_filters"}

\* C13 as stated: whenever both 'counties' and 'county' are present, the
\* legacy 'county' value has no influence on what the dispensary and
\* sentiment filters, has_active_filters and get_filter_summary return.
C13_Original ==
    (PrecedenceCall /\ {"counties", "county"} \subseteq DOMAIN call.filters)
        => \A g \in LegacyVariants(call.filters) : SameAnswer(g)

\* C13, amended: whenever the filter specification holds a non-empty
\* 'counties' list and the legacy 'county' value, the county restriction of
\* the dispensary and sentiment filters, of has_active_filters and of
\* get_filter_summary is determined by 'counties' alone: removing or changing
\* 'county' changes nothing.  A 'counties' list that is present but empty
\* counts as not given: the answer is then the one for 'county' alone.
C13_CountiesPrecedence ==
    (PrecedenceCall /\ {"counties", "county"} \subseteq DOMAIN call.filters)
        => IF call.filters["counties"] # <<>>
           THEN \A g \in LegacyVariants(call.filters) : SameAnswer(g)
           ELSE SameAnswer(Without(call.filters, {"counties"}))

C13_Witness ==
    /\ call.fn = "apply_dispensary_filters"
    /\ call.filters = [counties |-> <<PyStr(SD)>>, county |-> PyStr(LA)]
    /\ call.table.rows = 2
    /\ HasColumn(call.table, "County")
    /\ call.table.cols["County"]
          = <<PyStr(LA), PyStr(SD \o CountySuffixLower \o <<" ">>)>>
    /\ ret.result.rows = 1
    /\ ret.result.cols["County"] = <<PyStr(SD \o CountySuffixLower \o <<" ">>)>>

\* the spellings of a county name: with or without the suffix in any of its
\* letter cases, with or without surrounding whitespace
Spellings(base) ==
    {pre \o base \o suffix \o post :
        pre \in {<<>>, <<" ">>},
        suffix \in {<<>>, CountySuffix, CountySuffixLower, CountySuffixUpper},
        post \in {<<>>, <<" ">>}}

SameCounty(x, y) ==
    /\ x.t = "str" /\ y.t = "str"
    /\ \E base \in {LA, SD} : x.s \in Spellings(base) /\ y.s \in Spellings(base)

\* the county list in force: 'counties' when given, else the legacy value
EffectiveCounties(filters) ==
    IF HasValue(filters, "counties") THEN filters["counties"]
    ELSE IF "county" \in DOMAIN filters THEN <<filters["county"]>>
    ELSE <<>>

CountyMatches(cell, counties) ==
    \E i \in 1..Len(counties) :
        normalize_county_name(cell) = normalize_county_name(counties[i])

\* the rows the call made would have returned without any county key
RowsBeforeCounty ==
    Rows(ApplyByName(call.fn, call.table,
                     Without(call.filters, {"counties", "county"})).result)

RowsMatching(rows, counties) ==
    LET Test(row) == CountyMatches(row["County"], counties)
    IN  SelectSeq(rows, Test)

\* C14: in the dispensary and sentiment filters, with a county list in force
\* that does not hold the sentinel, a row (that passes the other filters) is
\* kept exactly when its normalized County equals the normalized form of some
\* entry of the list; so a row whose County and an entry are spellings of one
\* name, differing in the suffix being there, in its letter case or in
\* surrounding whitespace, is always kept.
C14_CountyMatching ==
    (/\ call.fn \in {"apply_dispensary_filters", "apply_sentiment_filters"}
     /\ EffectiveCounties(call.filters) # <<>>
     /\ ~InList(AllCounties, EffectiveCounties(call.filters))
     /\ HasColumn(call.table, "County"))
        => LET counties == EffectiveCounties(call.filters)
           IN  /\ Rows(ret.result) = RowsMatching(RowsBeforeCounty, counties)
               /\ \A i \in 1..Len(RowsBeforeCounty) :
                    (\E j \in 1..Len(counties) :
                        SameCounty(RowsBeforeCounty[i]["County"], counties[j]))
                       => InList(RowsBeforeCounty[i], Rows(ret.result))

C14_Witness ==
    /\ call.fn = "apply_sentiment_filters"
    /\ call.filters = [county |-> PyStr(LA \o CountySuffixUpper)]
    /\ call.table.rows = 2
    /\ HasColumn(call.table, "County")
    /\ call.table.cols["County"]
          = <<PyStr(LA), PyStr(<<" ">> \o LA \o CountySuffixUpper)>>
    /\ ret.result.rows = 2

\* C15 as stated: all three filter functions accept the list-valued shape:
\* with counties = [c1, ..., cn] (no sentinel among them) and a County
\* column, the result holds exactly the rows whose normalized County is the
\* normalized form of some ci.
C15_ListShape ==
    (/\ FilterCalled
     /\ HasValue(call.filters, "counties")
     /\ ~InList(AllCounties, call.filters["counties"])
     /\ HasColumn(call.table, "County"))
        => Rows(ret.result)
             = RowsMatching(RowsBeforeCounty, call.filters["counties"])

\* the keys of the filter dimension a column serves
DimensionKeys(column) ==
    CASE column = "Year" -> {"years"}
      [] column = "License Designation" -> {"license_types"}
      [] OTHER -> {"counties", "county"}

\* C16: a filter dimension whose column (Year, License Designation, County)
\* the table lacks is skipped silently: the filter functions raise nothing and
\* return what they return for the same specification without that dimension,
\* i.e. all rows that pass the remaining filters.  A validation rule on a
\* column the table lacks raises nothing either and reports a failing result.
C16_MissingColumnSkipped ==
    /\ FilterCalled
         => /\ ret.kind = "frame"
            /\ \A column \in {"Year", "License Designation", "County"} :
                 ~HasColumn(call.table, column)
                    => ret.result
                         = ApplyByName(call.fn, call.table,
                               Without(call.filters, DimensionKeys(column))).result
    /\ (call.fn = "validate_year_column" /\ ~HasColumn(call.table, call.column))
         => /\ ret.kind = "result"
            /\ ~ret.is_valid
            /\ ret.message.kind = "not found"

C16_Witness ==
    /\ call.fn = "apply_dispensary_filters"
    /\ ~HasColumn(call.table, "License Designation")
    /\ call.filters = [years |-> <<2020, 2021>>, license_types |-> <<AdultUse>>]
    /\ call.table.rows = 2
    /\ call.table.cols["Year"] = <<Num(2021), Num(2018)>>
    /\ ret.result.rows = 1

YearsDefault(filters) ==
    HasValue(filters, "years")
        => filters["years"] = <<DefaultStartYear, DefaultEndYear>>

CountyDefault(filters) ==
    EffectiveCounties(filters) # <<>>
        => InList(AllCounties, EffectiveCounties(filters))

LicenseDefault(filters) ==
    HasValue(filters, "license_types")
        => SetOf(filters["license_types"])
             = {AdultUse, Medicinal, AdultUseAndMedicinal}

\* C17: has_active_filters returns False exactly when every filter dimension
\* is at its default or not set (years = (2018, 2024), the county restriction
\* the "All Counties" sentinel, the license types all three types), and True
\* as soon as one dimension deviates.
C17_ActiveIffDeviates ==
    call.fn = "has_active_filters"
        => (ret.v <=> ~(/\ YearsDefault(call.filters)
                        /\ CountyDefault(call.filters)
                        /\ LicenseDefault(call.filters)))

C17_Witness ==
    /\ call.fn = "has_active_filters"
    /\ call.filters = [years |-> <<DefaultStartYear, 2023>>,
                       license_types |-> <<AdultUseAndMedicinal, Medicinal, AdultUse>>,
                       counties |-> <<AllCounties>>]
    /\ ret.v

RECURSIVE InOrder(_, _)
\* the sequence `dims` lists members of `order`, each at most once, in order
InOrder(dims, order) ==
    IF dims = <<>> THEN TRUE
    ELSE IF order = <<>> THEN FALSE
    ELSE IF Head(dims) = Head(order) THEN InOrder(Tail(dims), Tail(order))
    ELSE InOrder(dims, Tail(order))

SummaryDims == [i \in 1..Len(ret.parts) |-> ret.parts[i].dim]

NothingGiven(filters) ==
    /\ ~HasValue(filters, "years")
    /\ ~HasValue(filters, "counties")
    /\ "county" \notin DOMAIN filters
    /\ ~HasValue(filters, "license_types")

\* C18 as stated: get_filter_summary lists the dimensions in the order
\* years, counties, license types, and returns "No filters applied" whenever
\* has_active_filters is False for the same specification.
C18_Original ==
    call.fn = "get_filter_summary"
        => /\ ret.kind = "summary"
           /\ InOrder(SummaryDims, <<"years", "counties", "license_types">>)
           /\ ~has_active_filters(call.filters)
                => ret.text = "No filters applied"

\* C18, amended: get_filter_summary lists the dimensions in the order years,
\* counties, license types, and returns "No filters applied" exactly when no
\* dimension is given (each key absent or empty); has_active_filters is then
\* False.  A dimension given at its default is still listed, so the summary
\* of a specification for which has_active_filters is False need not be
\* "No filters applied".
C18_SummaryOrder ==
    call.fn = "get_filter_summary"
        => /\ ret.kind = "summary"
           /\ InOrder(SummaryDims, <<"years", "counties", "license_types">>)
           /\ ret.text = "No filters applied" <=> NothingGiven(call.filters)
           /\ ret.text = "No filters applied" => ~has_active_filters(call.filters)
           /\ ret.text # "No filters applied"
                => /\ ret.text = "Showing data for "
                   /\ HasValue(call.filters, "years")
                        <=> InList("years", SummaryDims)
                   /\ EffectiveCounties(call.filters) # <<>>
                        <=> InList("counties", SummaryDims)
                   /\ HasValue(call.filters, "license_types")
                        <=> InList("license_types", SummaryDims)

C18_Witness ==
    /\ call.fn = "get_filter_summary"
    /\ call.filters = [years |-> <<DefaultStartYear, DefaultEndYear>>,
                       license_types |-> <<AdultUse>>,
                       counties |-> <<PyStr(LA \o CountySuffix), PyStr(SD)>>]
    /\ ret.kind = "summary"
    /\ Len(ret.parts) = 3
    /\ ret.parts[1].form = "{start}-{end}"
    /\ ret.parts[2].form = "{n} counties"
    /\ ret.parts[3].label = AdultUse

(***************************************************************************)
(* Claims about the quality metrics (checked under SpecQuality).           *)
(***************************************************************************)
\* the number of cells of a table that are missing, counted cell by cell
MissingCells(table) ==
    Cardinality({<<c, i>> \in (DOMAIN table.cols) \X (1..table.rows) :
                    IsNullCell(table.cols[c][i])})

\* C19: for every non-empty table, get_data_quality_metrics reports
\* total_records = the row count, null_cells = the number of missing cells and
\* completeness = 100 * (1 - null_cells / (rows * columns)), which lies
\* between 0 and 100; with 100 cells of which 5 are null it is 95.
C19_Completeness ==
    (call.fn = "get_data_quality_metrics" /\ ~Empty(df))
        => /\ call.name \in DOMAIN ret.metrics
           /\ LET m == ret.metrics[call.name]
                  cells == df.rows * Cardinality(DOMAIN df.cols)
              IN  /\ m.total_records = df.rows
                  /\ m.null_cells = MissingCells(df)
                  /\ m.completeness.d > 0
                  /\ m.completeness.n * cells
                        = 100 * (cells - MissingCells(df)) * m.completeness.d
                  /\ RatLe(Rat(0, 1), m.completeness)
                  /\ RatLe(m.completeness, Rat(100, 1))
                  /\ (cells = 100 /\ MissingCells(df) = 5)
                        => RatEq(m.completeness, Rat(95, 1))

C19_Witness ==
    /\ call.fn = "get_data_quality_metrics"
    /\ df = HundredCells
    /\ ret.metrics[call.name].total_records = 20
    /\ ret.metrics[call.name].null_cells = 5
    /\ RatEq(ret.metrics[call.name].completeness, Rat(95, 1))

(***************************************************************************)
(* The frame claim (checked under SpecFilters).                            *)
(***************************************************************************)
\* C20: no operation changes the table it is given: after a call of
\* apply_dispensary_filters, apply_sentiment_filters, apply_density_filters,
\* normalize_dataframe_counties or validate_year_column the caller's table
\* has the rows, columns and values it had when the call was made; a filtered
\* result has exactly the columns of the input, the helper column
\* "_normalized_county" not among them.
C20_InputUntouched ==
    (mode = "filters" /\ call # NoCall)
        => /\ df = call.table
           /\ FilterCalled
                => /\ ret.kind = "frame"
                   /\ DOMAIN ret.result.cols = DOMAIN call.table.cols
                   /\ HelperColumn \notin DOMAIN ret.result.cols
           /\ (call.fn = "normalize_dataframe_counties" /\ ret.kind = "frame")
                => /\ DOMAIN ret.result.cols = DOMAIN call.table.cols
                   /\ ret.result.rows = call.table.rows

C20_Witness ==
    /\ call.fn = "apply_dispensary_filters"
    /\ call.filters = [counties |-> <<PyStr(LA)>>]
    /\ call.table.rows = 2
    /\ DOMAIN call.table.cols = {"County", "Year", "License Designation"}
    /\ call.table.cols["County"] = <<PyStr(LA \o CountySuffix), PyNaN>>
    /\ ret.result.rows = 1
    /\ DOMAIN ret.result.cols = {"County", "Year", "License Designation"}
    /\ ret.result.cols["County"] = <<PyStr(LA \o CountySuffix)>>
    /\ df = call.table

(***************************************************************************)
(* Claims about the preset validations (checked under SpecDatasets).       *)
(***************************************************************************)
\* what the call made returns when it is made at another time
RunAt(now) ==
    CASE call.fn = "validate_all_datasets" ->
             [kind |-> "all datasets",
              results |-> validate_all_datasets(call.data_dict, now)]
      [] call.fn = "validate_year_column" ->
             validate_year_column(call.data_dict["dispensaries"], "Year",
                                  DefaultMinYear, None, now)

\* C21 as stated: two runs of the same validation rules on the same table
\* (the year rule with its default maximum, the preset batch
\* validate_all_datasets) return identical results, whenever they happen.
C21_Deterministic ==
    (mode = "datasets" /\ call # NoCall)
        => \A now \in NowYears : ret = RunAt(now)

\* C29 as stated: when the Data Quality page hands its three loaded tables to
\* validate_all_datasets, the returned map has one entry per table and every
\* entry holds at least one Validation Result.
C29_PageValidated ==
    (call.fn = "validate_all_datasets" /\ call.caller = "page")
        => /\ Cardinality(DOMAIN ret.results) = Cardinality(DOMAIN call.data_dict)
           /\ \A n \in DOMAIN ret.results : Len(ret.results[n].results) >= 1

(***************************************************************************)
(* Further claims about the filters (checked under SpecFilters).           *)
(***************************************************************************)
\* the three predicates on a row; a dimension that is not given, or whose
\* column the table lacks, holds of every row
YearPredicate(row, filters) ==
    (HasValue(filters, "years") /\ "Year" \in DOMAIN row)
        => InYearRange(row["Year"], filters["years"])

LicensePredicate(row, filters) ==
    (HasValue(filters, "license_types") /\ "License Designation" \in DOMAIN row)
        => row["License Designation"] \in SetOf(filters["license_types"])

CountyPredicate(row, filters) ==
    (/\ EffectiveCounties(filters) # <<>>
     /\ ~InList(AllCounties, EffectiveCounties(filters))
     /\ "County" \in DOMAIN row)
        => CountyMatches(row["County"], EffectiveCounties(filters))

RowsSatisfying(table, filters) ==
    LET Test(row) == /\ YearPredicate(row, filters)
                     /\ LicensePredicate(row, filters)
                     /\ CountyPredicate(row, filters)
    IN  SelectSeq(Rows(table), Test)

\* one of the three steps of apply_dispensary_filters, applied to a table
Step(step, table, filters) ==
    CASE step = "years" -> year_filter(Frame("new", table), filters).data
      [] step = "license_types" -> license_filter(Frame("new", table), filters).data
      [] OTHER -> county_filter(table, Frame("new", table), filters).result

StepOrders ==
    {order \in [1..3 -> {"years", "license_types", "counties"}] :
        \A i, j \in 1..3 : i # j => order[i] # order[j]}

InStepOrder(order, table, filters) ==
    Step(order[3], Step(order[2], Step(order[1], table, filters), filters), filters)

\* C22: apply_dispensary_filters returns exactly the rows of the input that
\* satisfy the year, the license type and the county predicate, in input
\* order; the three steps taken in any order give the same table, and so
\* does the same filter applied once more to the result.
C22_AllThreePredicates ==
    call.fn = "apply_dispensary_filters"
        => /\ Rows(ret.result) = RowsSatisfying(call.table, call.filters)
           /\ \A order \in StepOrders :
                InStepOrder(order, call.table, call.filters) = ret.result
           /\ apply_dispensary_filters(ret.result, call.filters).result = ret.result

C22_Witness ==
    /\ call.fn = "apply_dispensary_filters"
    /\ call.filters = [years |-> <<2020, 2021>>,
                       license_types |-> <<AdultUse>>,
                       counties |-> <<PyStr(LA)>>]
    /\ call.table.rows = 2
    /\ DOMAIN call.table.cols = {"County", "Year", "License Designation"}
    /\ call.table.cols["Year"] = <<Num(2020), Num(2021)>>
    /\ call.table.cols["License Designation"] = <<AdultUse, Medicinal>>
    /\ ret.result.rows = 1
    /\ ret.result.cols["Year"] = <<Num(2020)>>

\* C28 as stated: whenever has_active_filters is False for a filter
\* specification, apply_dispensary_filters with that specification returns
\* every row of the table.
C28_InactiveKeepsAll ==
    (call.fn = "apply_dispensary_filters" /\ ~has_active_filters(call.filters))
        => Rows(ret.result) = Rows(call.table)

(***************************************************************************)
(* A further claim about the county normalizer (checked under SpecCounty). *)
(***************************************************************************)
\* C23 as stated: for an input that is not null and not a string (an integer,
\* a boolean), normalize_county_name and add_county_suffix return what they
\* return for its string representation str(x).
C23_NonStringCoerced ==
    (mode = "county" /\ Len(ops) = 1 /\ name.t \in {"int", "bool"})
        => value = IF ops[1] = "normalize"
                   THEN normalize_county_name(PyStr(Str(name)))
                   ELSE add_county_suffix(PyStr(Str(name)))

(***************************************************************************)
(* A further claim about the quality metrics (checked under SpecQuality).  *)
(***************************************************************************)
\* C24 as stated: get_data_quality_metrics returns an entry for each named
\* table it is given, and for a table with zero cells (no rows or no
\* columns) the entry has completeness 0.
C24_EntryPerTable ==
    call.fn = "get_data_quality_metrics"
        => \A n \in DOMAIN call.data_dict :
             call.data_dict[n] # PyNone
                => /\ n \in DOMAIN ret.metrics
                   /\ Size(call.data_dict[n]) = 0
                        => RatEq(ret.metrics[n].completeness, Rat(0, 1))

(***************************************************************************)
(* Claims about the aggregations.                                          *)
(***************************************************************************)
\* the calendar months in which rows of the table fall
MonthsWithData(table) ==
    {TweetDates(table)[i].v : i \in 1..table.rows}

\* C25 as stated: calculate_monthly_sentiment over rows that fall in exactly
\* two calendar months returns exactly two rows, one per month with data,
\* each with Date, Sentiment, Volume >= 1 and Positive_Ratio populated,
\* whether or not the two months are adjacent.
C25_TwoMonthsTwoRows ==
    (call.fn = "calculate_monthly_sentiment"
        /\ Cardinality(MonthsWithData(df)) = 2)
        => /\ Len(ret.rows) = 2
           /\ {ret.rows[i].Date : i \in 1..Len(ret.rows)} = MonthsWithData(df)
           /\ \A i \in 1..Len(ret.rows) :
                /\ ret.rows[i].Sentiment.some
                /\ ret.rows[i].Volume >= 1
                /\ ret.rows[i].Positive_Ratio.some

\* the rows whose County is one of the region's counties, written with the
\* " County" suffix, and whose Dispensary_PerCapita is present
RegionRows(table, counties) ==
    {i \in 1..table.rows :
        /\ \E j \in 1..Len(counties) :
              table.cols["County"][i] =
                  PyStr(IF EndsWith(counties[j], CountySuffix) THEN counties[j]
                        ELSE counties[j] \o CountySuffix)
        /\ table.cols["Dispensary_PerCapita"][i].k = "num"}

RECURSIVE SumOver(_, _)
SumOver(table, rows) ==
    IF rows = {} THEN 0
    ELSE LET i == CHOOSE k \in rows : TRUE
         IN  table.cols["Dispensary_PerCapita"][i].v + SumOver(table, rows \ {i})

\* C26: calculate_regional_density returns exactly one row per region of the
\* mapping, in the mapping's order; the row's Average_Density is the mean
\* Dispensary_PerCapita over the density rows whose County is one of the
\* region's counties in suffixed form, and it is the number 0, never NaN, when
\* no row matches, the empty density table included.
C26_RowPerRegion ==
    (call.fn = "calculate_regional_density")
        => /\ Len(ret.rows) = Len(call.mapping)
           /\ \A r \in 1..Len(call.mapping) :
                LET rows == RegionRows(call.table, call.mapping[r][2])
                    avg == ret.rows[r].Average_Density
                IN  /\ ret.rows[r].Region = call.mapping[r][1]
                    /\ avg.some
                    /\ avg.n * Cardinality(rows) = SumOver(call.table, rows) * avg.d
                    /\ rows = {} => avg.n = 0

\* a region with two matching rows next to a region with none
C26_Witness ==
    /\ call.fn = "calculate_regional_density"
    /\ call.mapping = SIMPLE_REGIONS
    /\ Cardinality(RegionRows(call.table, SIMPLE_REGIONS[2][2])) = 2
    /\ RegionRows(call.table, SIMPLE_REGIONS[1][2]) = {}
    /\ ret.rows[2].Average_Density = Quotient(3, 2)
    /\ ret.rows[1].Average_Density = Quotient(0, 1)

\* the table with every County written with the suffix
Suffixed(table) ==
    Table(table.rows,
          [table.cols EXCEPT !["County"] =
              [i \in 1..table.rows |->
                  LET c == table.cols["County"][i].s
                  IN  IF EndsWith(c, CountySuffix) THEN PyStr(c)
                      ELSE PyStr(c \o CountySuffix)]])

\* C30 as stated: the regional averages do not depend on whether the County
\* column is written with bare or with suffixed names, both for
\* calculate_regional_density and for the loop of the Geographic Analysis
\* page: each gives what the same rows give when written with the suffix.
C30_SpellingIndependent ==
    (call.fn \in {"calculate_regional_density", "Geographic Analysis"})
        => \A r \in 1..Len(ret.rows) :
              ret.rows[r].Average_Density =
                  calculate_regional_density(Suffixed(call.table),
                                             call.mapping)[r].Average_Density

(***************************************************************************)
(* Claims about the GeoJSON loader.                                        *)
(***************************************************************************)
\* the features the loader looks at
Sampled(data) ==
    LET items == data.d["features"].items
    IN  SubSeq(items, 1, IF Len(items) < FeaturesChecked THEN Len(items) ELSE FeaturesChecked)

\* the checks in the order the loader makes them: five on the document, then
\* four on each sampled feature; a check is <<passes, message, feature>>
DocumentChecks(data) ==
    LET isDict == data.j = "dict"
        hasFeatures == isDict /\ "features" \in DOMAIN data.d
        isList == hasFeatures /\ data.d["features"].j = "list"
    IN  << <<isDict, "must be a dictionary", NoFeature>>,
           <<isDict /\ "type" \in DOMAIN data.d
                 /\ data.d["type"] = JStr("FeatureCollection"),
             "must be a FeatureCollection", NoFeature>>,
           <<hasFeatures, "must contain 'features' array", NoFeature>>,
           <<isList, "'features' must be a list", NoFeature>>,
           <<isList /\ data.d["features"].items # <<>>,
             "contains no features", NoFeature>> >>

FeatureChecks(feature, i) ==
    LET isDict == feature.j = "dict"
    IN  << <<isDict, "is not a dictionary", <<i>> >>,
           <<isDict /\ "type" \in DOMAIN feature.d
                 /\ feature.d["type"] = JStr("Feature"),
             "missing or invalid 'type' field", <<i>> >>,
           <<isDict /\ "geometry" \in DOMAIN feature.d,
             "missing 'geometry' field", <<i>> >>,
           <<isDict /\ "properties" \in DOMAIN feature.d,
             "missing 'properties' field", <<i>> >> >>

RECURSIVE SampledChecks(_, _)
SampledChecks(features, i) ==
    IF features = <<>> THEN <<>>
    ELSE FeatureChecks(Head(features), i) \o SampledChecks(Tail(features), i + 1)

Checks(data) ==
    LET document == DocumentChecks(data)
    IN  IF \A c \in 1..Len(document) : document[c][1]
        THEN document \o SampledChecks(Sampled(data), 0)
        ELSE document

\* the file with the features after the sampled ones replaced
WithTail(file, feature) ==
    LET items == file.data.d["features"].items
    IN  [file EXCEPT !.data.d["features"].items =
            [i \in 1..Len(items) |-> IF i > FeaturesChecked THEN feature ELSE items[i]]]

\* C27: load_geojson returns the parsed document unchanged exactly when it is
\* a dictionary of type FeatureCollection whose 'features' is a non-empty list
\* and whose first five features are dictionaries of type 'Feature' with
\* 'geometry' and 'properties'; otherwise it raises the ValueError of the
\* first check, in that fixed order, that fails; and the features after the
\* fifth have no influence on the outcome.
C27_FirstFailingCheck ==
    (call.fn = "load_geojson" /\ call.file.exists /\ call.file.json)
        => LET data == call.file.data
               checks == Checks(data)
               failing == {c \in 1..Len(checks) : ~checks[c][1]}
           IN  /\ (failing = {}) <=> (ret = Returned(data))
               /\ failing # {} =>
                    LET first == CHOOSE c \in failing : \A e \in failing : c <= e
                    IN  ret = GeoError(checks[first][2], checks[first][3])
               /\ (\A c \in 1..Len(DocumentChecks(data)) : checks[c][1]) =>
                    \A feature \in Features :
                        LET other == load_geojson(WithTail(call.file, feature))
                        IN  /\ other.kind = ret.kind
                            /\ ret.kind = "raised" => other = ret

\* five valid features followed by a sixth that would fail a check
C27_Witness ==
    /\ call.fn = "load_geojson" /\ call.file.exists /\ call.file.json
    /\ call.file.data.j = "dict"
    /\ "features" \in DOMAIN call.file.data.d
    /\ call.file.data.d["features"].j = "list"
    /\ Len(call.file.data.d["features"].items) > FeaturesChecked
    /\ call.file.data.d["features"].items[FeaturesChecked + 1] = FeatureDict({"type"}, "Feature")
    /\ ret = Returned(call.file.data)

=============================================================================
